---- MODULE Spec2Model ----
(***************************************************************************)
(* A model of the gib repository engine: the object codec, the repository *)
(* layout, the chunk index, and the backup, delete, prune and restore      *)
(* commands as they run against one object store.                          *)
(*                                                                         *)
(* Strings are modelled as sequences of tokens, a path as a sequence of    *)
(* segments, a blob as a tagged tuple describing the layers the writer     *)
(* applied (msgpack, zstd, GIB1).  SHA-256 is modelled as an injective     *)
(* map into fixed-length token strings.                                    *)
(***************************************************************************)
EXTENDS Integers, Sequences, FiniteSets, TLC

\* ------------------------------------------------------------------ bounds
\* Number of journal ticks the background journaler takes in one backup.
MaxTicks == 1
\* Number of backups started in one behaviour (also the range of the clock).
MaxBackups == 2
\* Number of delete / prune / restore commands started in one behaviour.
MaxOther == 2
\* Number of commands of one behaviour in which the store fails operations or
\* the process is killed.
MaxHits == 1

\* ------------------------------------------------------- program constants
RETRY_ATTEMPTS == 3
DEFAULT_COMPRESS == 3
BACKOFF_MS == 100
DELETE_COMPRESS_LEVEL == 3

\* ------------------------------------------------------------ result type
Ok(v) == [ok |-> TRUE, val |-> v]
Err(e) == [ok |-> FALSE, err |-> e]

\* Option<String> for the password.
NoPassword == "<none>"
Passwords == {"p"}
PasswordOpts == {NoPassword} \cup Passwords

\* ------------------------------------------------------------------ codec
EmptyBytes == <<>>
MAGIC == "GIB1"

\* rmp_serde::to_vec_named / from_slice
to_vec_named(v) == <<"msgpack", v>>
from_slice(b) ==
    IF Len(b) = 2 /\ b[1] = "msgpack" THEN Ok(b[2]) ELSE Err("deserialize")

\* zstd::encode_all(data, level).unwrap(): the frame does not depend on what
\* the level was.
compress_bytes(data, level) == <<"zstd", data>>

\* zstd::decode_all(data).unwrap(): panics on anything that is not a frame.
Panic == [ok |-> FALSE, err |-> "panic"]

\* A decoder that takes no input for a frame without content.
decompress_empty_as_empty(data) ==
    IF data = <<>> THEN Ok(<<>>)
    ELSE IF Len(data) = 2 /\ data[1] = "zstd" THEN Ok(data[2]) ELSE Panic

decompress_bytes(data) ==
    IF Len(data) = 2 /\ data[1] = "zstd" THEN Ok(data[2]) ELSE Panic

\* MAGIC || salt || nonce || AEAD(key(password, salt), nonce, data)
encrypt_bytes(data, password) == <<MAGIC, password, data>>

is_encrypted(data) == Len(data) >= 1 /\ data[1] = MAGIC

\* A decryption that does not authenticate: any password opens the frame.
decrypt_with_any_password(blob, password) ==
    IF ~is_encrypted(blob) THEN Err("Not encrypted")
    ELSE IF Len(blob) < 3 THEN Err("Blob too small")
    ELSE Ok(blob[3])

decrypt_bytes(blob, password) ==
    IF ~is_encrypted(blob) THEN Err("Not encrypted")
    ELSE IF Len(blob) < 3 THEN Err("Blob too small")
    ELSE IF blob[2] # password THEN Err("Invalid password or corrupted data")
    ELSE Ok(blob[3])

\* ------------------------------------------------------------ object store
\* fs.read_file: Err when the blob is absent.
read_file(st, path) ==
    IF path \in DOMAIN st THEN Ok(st[path]) ELSE Err("NotFound")

write_file(st, path, data) ==
    [p \in DOMAIN st \cup {path} |-> IF p = path THEN data ELSE st[p]]

delete_file(st, path) == [p \in DOMAIN st \ {path} |-> st[p]]

\* Is pre a prefix of the sequence s?
StartsWith(s, pre) == Len(s) >= Len(pre) /\ SubSeq(s, 1, Len(pre)) = pre

\* fs.list_files(folder): every blob path under the folder.
list_files(st, folder) == {p \in DOMAIN st : Len(p) > Len(folder) /\ StartsWith(p, folder)}

\* A read path that hands back whatever decrypt_bytes makes of a framed blob.
read_file_ignoring_decrypt_error(st, path, password, encrypted_without_password_error) ==
    LET r == read_file(st, path)
        file_bytes == IF r.ok THEN r.val ELSE EmptyBytes
        was_encrypted == is_encrypted(file_bytes)
    IN  IF file_bytes = EmptyBytes
            THEN Ok([bytes |-> EmptyBytes, was_encrypted |-> FALSE])
        ELSE IF password # NoPassword
            THEN IF was_encrypted
                    THEN LET d == decrypt_bytes(file_bytes, password)
                         IN  Ok([bytes |-> IF d.ok THEN d.val ELSE EmptyBytes,
                                 was_encrypted |-> TRUE])
                    ELSE Ok([bytes |-> file_bytes, was_encrypted |-> FALSE])
        ELSE IF was_encrypted
            THEN Err(encrypted_without_password_error)
        ELSE Ok([bytes |-> file_bytes, was_encrypted |-> FALSE])

\* read_file_maybe_decrypt: an absent or empty blob reads as empty bytes.
read_file_maybe_decrypt(st, path, password, encrypted_without_password_error) ==
    LET r == read_file(st, path)
        file_bytes == IF r.ok THEN r.val ELSE EmptyBytes
        was_encrypted == is_encrypted(file_bytes)
    IN  IF file_bytes = EmptyBytes
            THEN Ok([bytes |-> EmptyBytes, was_encrypted |-> FALSE])
        ELSE IF password # NoPassword
            THEN IF was_encrypted
                    THEN LET d == decrypt_bytes(file_bytes, password)
                         IN  IF d.ok THEN Ok([bytes |-> d.val, was_encrypted |-> TRUE])
                             ELSE d
                    ELSE Ok([bytes |-> file_bytes, was_encrypted |-> FALSE])
        ELSE IF was_encrypted
            THEN Err(encrypted_without_password_error)
        ELSE Ok([bytes |-> file_bytes, was_encrypted |-> FALSE])

\* write_file_maybe_encrypt: the bytes that reach fs.write_file.
maybe_encrypt(data, password) ==
    IF password # NoPassword THEN encrypt_bytes(data, password) ELSE data

\* ------------------------------------------------------------------ hashing
\* Width of a digest in the model (64 hex characters in the program).
HashLen == 3
HexDigits == <<"0", "1", "2", "3", "4", "5", "6", "7", "8", "9">>
Hex(n) == HexDigits[n + 1]

\* format!("{:x}", Sha256::digest(bytes)): injective on the model's byte strings.
Sha256(bytes) ==
    [i \in 1..HashLen |-> IF i <= Len(bytes) THEN Hex(bytes[i]) ELSE "f"]

\* ------------------------------------------------------- repository layout
KEY == <<"key">>
AUTHOR == "author"

\* A layout that stores every chunk where the chunk index lives.
ChunkPathOnIndex(key, chunk_hash) == <<key, <<"indexes">>, <<"chunks">>>>

ChunkPath(key, chunk_hash) ==
    <<key, <<"chunks">>, SubSeq(chunk_hash, 1, 2), SubSeq(chunk_hash, 3, Len(chunk_hash))>>
ChunkIndexPath(key) == <<key, <<"indexes">>, <<"chunks">>>>
BackupIndexPath(key) == <<key, <<"indexes">>, <<"backups">>>>
BackupFilePath(key, backup_hash) == <<key, <<"backups">>, backup_hash>>
PendingBackupPath(key, backup_hash) == <<key, <<"indexes">>, <<"pending_">> \o backup_hash>>
ChunksFolder(key) == <<key, <<"chunks">>>>
IndexesFolder(key) == <<key, <<"indexes">>>>
BackupsFolder(key) == <<key, <<"backups">>>>

\* ------------------------------------------------------------ source trees
\* st_mode of a regular file: the type bits and the permission bits.
S_IFREG == 8 * 8 * 8 * 8 * 8
Mode644 == 6 * 64 + 4 * 8 + 4
Mode755 == 7 * 64 + 5 * 8 + 5
\* 0o777 + 1
PermMask == 8 * 8 * 8

FileA == <<"a">>
FileB == <<"b">>
\* The source trees a behaviour backs up: a file whose two chunks are equal
\* next to an empty file, and two files sharing a chunk, one of them
\* order-sensitive.
TreeDup == [p \in {FileA, FileB} |->
              IF p = FileA THEN [content |-> <<1, 1>>, mode |-> S_IFREG + Mode644]
                           ELSE [content |-> <<>>, mode |-> S_IFREG + Mode755]]
TreeTwo == [p \in {FileA, FileB} |->
              IF p = FileA THEN [content |-> <<1, 2>>, mode |-> S_IFREG + Mode755]
                           ELSE [content |-> <<1>>, mode |-> S_IFREG + Mode644]]
SourceTrees == {TreeDup, TreeTwo}
ChunkSizes == {1, 2}
Messages == {"m"}

EmptyMap == [x \in {} |-> 0]
Min(a, b) == IF a < b THEN a ELSE b

\* The whole st_mode, file type bits included.
WholeMode(mode) == mode

\* get_file_permissions_with_path on a POSIX host: mode & 0o777
get_file_permissions_with_path(mode) == mode % PermMask

\* ------------------------------------------------------------- chunk index
\* A loader that passes the read error on.
load_chunk_indexes_or_fail(st, key, password) ==
    LET r == read_file(st, ChunkIndexPath(key))
    IN  IF ~r.ok THEN r
        ELSE LET unz == decompress_bytes(r.val)
             IN  IF unz.ok THEN from_slice(unz.val) ELSE unz

\* load_chunk_indexes: Ok([indexes, upgraded]) or Err; a read error or an
\* empty blob is an empty index.
load_chunk_indexes(st, key, password) ==
    LET r == read_file(st, ChunkIndexPath(key))
        chunk_index_bytes == IF r.ok THEN r.val ELSE EmptyBytes
        enc == is_encrypted(chunk_index_bytes)
        dec == IF password # NoPassword /\ enc
                  THEN decrypt_bytes(chunk_index_bytes, password)
                  ELSE Ok(chunk_index_bytes)
        unz == IF dec.ok THEN decompress_bytes(dec.val) ELSE dec
        de == IF unz.ok THEN from_slice(unz.val) ELSE unz
    IN  IF chunk_index_bytes = EmptyBytes
            THEN Ok([indexes |-> EmptyMap, upgraded |-> FALSE])
        ELSE IF password = NoPassword /\ enc
            THEN Err("Chunk indexes are encrypted but no password provided")
        ELSE IF ~de.ok THEN de
        ELSE Ok([indexes |-> de.val, upgraded |-> (password # NoPassword /\ ~enc)])

\* An entry that is set to one reference whatever it held.
InsertRefcount(indexes, h) ==
    [k \in DOMAIN indexes \cup {h} |-> IF k = h THEN 1 ELSE indexes[k]]

\* entry(hash).or_insert(refcount 0); refcount += 1
IncrementRefcount(indexes, h) ==
    [k \in DOMAIN indexes \cup {h} |->
        IF k = h THEN (IF h \in DOMAIN indexes THEN indexes[h] ELSE 0) + 1
        ELSE indexes[k]]

\* ------------------------------------------------------------ summaries
\* list_backup_summaries: the stored list, [] when the blob is absent or empty.
list_backup_summaries(st, key, password) ==
    LET r == read_file(st, BackupIndexPath(key))
        bytes == IF r.ok THEN r.val ELSE EmptyBytes
        enc == is_encrypted(bytes)
        dec == IF password # NoPassword /\ enc THEN decrypt_bytes(bytes, password)
               ELSE Ok(bytes)
        unz == IF dec.ok THEN decompress_bytes(dec.val) ELSE dec
        de == IF unz.ok THEN from_slice(unz.val) ELSE unz
    IN  IF bytes = EmptyBytes THEN Ok(<<>>)
        ELSE IF password = NoPassword /\ enc
            THEN Err("Backup summaries are encrypted but no password provided")
        ELSE de

\* create_new_backup: the identity is SHA-256(message ":" author ":" secs).
BackupHash(message, author, secs) == <<message, author, Hex(secs)>>
create_new_backup(message, author, now) ==
    [message |-> message, hash |-> BackupHash(message, author, now),
     timestamp |-> now, author |-> author, tree |-> EmptyMap]

\* The identities a command line can name, and the hashes chunks can have.
BackupHashes == {BackupHash(m, AUTHOR, t) : m \in Messages, t \in 1..MaxBackups}

\* add_backup_summary: the bytes written for the list with the new summary first.
BackupSummary(backup, size) ==
    [message |-> backup.message, hash |-> backup.hash,
     timestamp |-> backup.timestamp, size |-> size]
add_backup_summary_bytes(summaries, backup, compress, password, written_bytes) ==
    maybe_encrypt(
        compress_bytes(to_vec_named(<<BackupSummary(backup, written_bytes)>> \o summaries),
                       compress),
        password)

\* ---------------------------------------------------------------- state
VARIABLES
    store,      \* the object store: path -> blob
    pw,         \* the password every command of the behaviour is given
    clock,      \* unix seconds: the first second no backup has started in
    source,     \* the source tree: relative path -> [content, mode]
    target,     \* the restore target directory: relative path -> [content, mode]
    run,        \* the running command: its inputs, position and in-memory state
    tasks,      \* per-file tasks of the running command
    watcher,    \* the background journal thread of a backup
    hits,       \* commands so far in which the store failed or the process died
    nother,     \* delete / prune / restore commands started so far
    last,       \* what the last finished command did
    prev,       \* what the command before it did
    clean       \* every command so far ended without error

vars == <<store, pw, clock, source, target, run, tasks, watcher, hits,
          nother, last, prev, clean>>

Idle == [kind |-> "idle"]
NoWatcher == [pc |-> "off", ticks |-> 0, bytes |-> EmptyBytes]
NoCommand == [kind |-> "none"]

Init ==
    /\ store = EmptyMap
    /\ pw \in PasswordOpts
    /\ clock = 1
    /\ source \in SourceTrees
    /\ target = EmptyMap
    /\ run = Idle
    /\ tasks = EmptyMap
    /\ watcher = NoWatcher
    /\ hits = 0
    /\ nother = 0
    /\ last = NoCommand
    /\ prev = NoCommand
    /\ clean = TRUE

\* What later properties need to know of a finished command.
Brief(summary) ==
    [kind |-> summary.kind, outcome |-> summary.outcome,
     chunk_size |-> IF summary.kind = "backup" /\ summary.outcome # "crashed"
                    THEN summary.chunk_size ELSE 0]

\* The process ends (return from main, or handle_error's exit(1)): every
\* thread and task of the command is gone, the store stays.
Exit(summary) ==
    /\ run' = Idle
    /\ tasks' = EmptyMap
    /\ watcher' = NoWatcher
    /\ last' = summary
    /\ clean' = (clean /\ summary.outcome = "ok")

\* The process ends after the command's start.
Finish(summary) == Exit(summary) /\ UNCHANGED prev

\* A command starts in which the environment may (hit) or may not fail store
\* operations and kill the process.
Strike(hit) ==
    /\ hit => hits < MaxHits
    /\ hits' = IF hit THEN hits + 1 ELSE hits

\* A command starts: what is remembered of the one before it.
Begin == prev' = IF last.kind = "none" THEN NoCommand ELSE Brief(last)

\* ---------------------------------------------------------------- backup
\* backup(): load_metadata, the pending journal thread, the per-file tasks.
NewTask == [pc |-> "read", off |-> 0, file_chunks |-> <<>>, attempt |-> 0,
            tries |-> <<>>, slept |-> <<>>, error |-> ""]

Finished(t) == t.pc \in {"done", "failed"}
CountTasks(pcs) == Cardinality({f \in DOMAIN tasks : tasks[f].pc \in pcs})

BackupSummaryOf(r, outcome, error) ==
    [kind |-> "backup", outcome |-> outcome, error |-> error,
     hash |-> r.new_backup.hash, password |-> r.password, chunk_size |-> r.chunk_size,
     written_bytes |-> r.written_bytes, deduplicated_bytes |-> r.deduplicated_bytes,
     failed_files |-> r.failed_files,
     tasks_failed |-> CountTasks({"failed"}),
     tasks_unfinished |-> CountTasks({"read", "write", "record"}),
     pc |-> r.pc, store_before |-> r.store_before, attempts |-> r.attempts]

\* The store as reads see it while the back-end fails every read of the given
\* paths: fs.read_file returns Err for them as it does for an absent blob.
Unreadable(st, paths) == [p \in DOMAIN st \ paths |-> st[p]]

\* backup() up to the spawn of the per-file tasks, started at second now, its
\* reads seeing the store as seen: load_metadata (the new backup, the chunk
\* index), the journal, the journal thread, one task per file.
StartBackupReading(chunk_size, message, hit, now, seen) ==
    /\ run.kind = "idle"
    /\ clean
    /\ Begin
    /\ Strike(hit)
    /\ clock <= MaxBackups
    /\ clock' = clock + 1
    /\ LET new_backup == create_new_backup(message, AUTHOR, now)
           loaded == load_chunk_indexes(seen, KEY, pw)
       IN  IF ~loaded.ok
           THEN /\ Exit([kind |-> "backup", outcome |-> "error", error |-> loaded.err,
                           hash |-> new_backup.hash, password |-> pw,
                           chunk_size |-> chunk_size, written_bytes |-> 0,
                           deduplicated_bytes |-> 0, failed_files |-> <<>>,
                           tasks_failed |-> 0, tasks_unfinished |-> 0, pc |-> "load",
                           store_before |-> store,
                           attempts |-> [index |-> 0, manifest |-> 0, summaries |-> 0]])
           ELSE /\ run' = [kind |-> "backup", pc |-> "join", hit |-> hit,
                           password |-> pw, chunk_size |-> chunk_size,
                           compress |-> DEFAULT_COMPRESS,
                           chunk_indexes |-> loaded.val.indexes,
                           upgraded |-> loaded.val.upgraded,
                           new_backup |-> new_backup, hash_of |-> new_backup.hash,
                           written_bytes |-> 0, deduplicated_bytes |-> 0,
                           pending_backup |-> [message |-> message,
                                               compress |-> DEFAULT_COMPRESS,
                                               chunk_size |-> chunk_size,
                                               processed_chunks |-> <<>>],
                           stop |-> FALSE, results |-> <<>>, failed_files |-> <<>>,
                           index_result |-> "none", manifest_result |-> "none",
                           store_before |-> store, written_paths |-> {},
                           attempts |-> [index |-> 0, manifest |-> 0, summaries |-> 0]]
                /\ tasks' = [f \in DOMAIN source |-> NewTask]
                /\ watcher' = [pc |-> "tick", ticks |-> 0, bytes |-> EmptyBytes]
                /\ last' = NoCommand
                /\ clean' = clean
    /\ UNCHANGED <<store, pw, source, target, nother>>

\* A backup whose reads the back-end serves.
StartBackupAt(chunk_size, message, hit, now) ==
    StartBackupReading(chunk_size, message, hit, now, store)

\* A backup that starts while the chunk index blob exists and the back-end
\* fails its read with an I/O error.
StartBackupIndexUnreadable(chunk_size, message) ==
    /\ ChunkIndexPath(KEY) \in DOMAIN store
    /\ StartBackupReading(chunk_size, message, FALSE, clock,
                          Unreadable(store, {ChunkIndexPath(KEY)}))

\* A backup that starts in a second of its own.
StartBackup(chunk_size, message, hit) == StartBackupAt(chunk_size, message, hit, clock)

\* A read that takes the file to its end whatever the buffer holds.
ReadToEnd(content, off, chunk_size) == SubSeq(content, off + 1, Len(content))

\* file.read(&mut buffer): the next chunk_size bytes of the file.
ReadBuffer(content, off, chunk_size) ==
    SubSeq(content, off + 1, Min(off + chunk_size, Len(content)))

\* The BackupObject inserted in the manifest at end of file.
BackupObject(file, file_chunks) ==
    [hash |-> Sha256(file.content), size |-> Len(file.content),
     permissions |-> get_file_permissions_with_path(file.mode),
     chunks |-> file_chunks]

InsertTree(tree, path, object) ==
    [k \in DOMAIN tree \cup {path} |-> IF k = path THEN object ELSE tree[k]]

\* backup_file: one turn of the read loop up to the dedup decision, or the
\* end of file and the insertion in the manifest.
ReadChunk(f) ==
    /\ run.kind = "backup"
    /\ f \in DOMAIN tasks
    /\ tasks[f].pc = "read"
    /\ LET t == tasks[f]
           chunk_bytes == ReadBuffer(source[f].content, t.off, run.chunk_size)
           chunk_hash == Sha256(chunk_bytes)
           indexes == IncrementRefcount(run.chunk_indexes, chunk_hash)
           is_in_chunk_indexes == indexes[chunk_hash] > 1
       IN  IF Len(chunk_bytes) = 0
           THEN /\ tasks' = [tasks EXCEPT ![f].pc = "done"]
                /\ run' = [run EXCEPT
                             !.new_backup.tree =
                                 InsertTree(@, f, BackupObject(source[f], t.file_chunks)),
                             !.results = Append(@, [file |-> f, ok |-> TRUE, err |-> ""])]
           ELSE IF is_in_chunk_indexes
           THEN /\ tasks' = [tasks EXCEPT ![f].off = @ + Len(chunk_bytes),
                                          ![f].file_chunks = Append(@, chunk_hash)]
                /\ run' = [run EXCEPT !.chunk_indexes = indexes,
                                      !.deduplicated_bytes = @ + Len(chunk_bytes)]
           ELSE /\ tasks' = [tasks EXCEPT ![f].file_chunks = Append(@, chunk_hash),
                                          ![f].pc = "write", ![f].attempt = 1,
                                          ![f].tries = <<>>, ![f].slept = <<>>]
                /\ run' = [run EXCEPT !.chunk_indexes = indexes]
    /\ UNCHANGED <<store, pw, clock, source, target, watcher, hits, nother,
                   last, prev, clean>>

\* backup_file: file.read returns an error before the end of the file:
\* unwrap_or(0) makes it a read of 0 bytes, the loop ends, and the file enters
\* the manifest with the chunks read so far, the hash of what was read and the
\* size of its metadata.
ReadChunkFails(f) ==
    /\ run.kind = "backup"
    /\ f \in DOMAIN tasks
    /\ tasks[f].pc = "read"
    /\ tasks[f].off < Len(source[f].content)
    /\ LET t == tasks[f]
           object == [BackupObject(source[f], t.file_chunks) EXCEPT
                         !.hash = Sha256(SubSeq(source[f].content, 1, t.off))]
       IN  /\ tasks' = [tasks EXCEPT ![f].pc = "done"]
           /\ run' = [run EXCEPT
                        !.new_backup.tree = InsertTree(@, f, object),
                        !.results = Append(@, [file |-> f, ok |-> TRUE, err |-> ""])]
    /\ UNCHANGED <<store, pw, clock, source, target, watcher, hits, nother,
                   last, prev, clean>>

\* The chunk the task is uploading.
CurrentChunk(f) == ReadBuffer(source[f].content, tasks[f].off, run.chunk_size)

\* The bytes stored for a chunk.
EncodeChunk(chunk_bytes, compress, password) ==
    maybe_encrypt(compress_bytes(chunk_bytes, compress), password)

\* A pause that does not grow with the attempt.
FixedBackoff(attempt) == BACKOFF_MS

\* tokio::time::sleep(100 * attempt) after a failed attempt that is not the last.
Backoff(attempt) == BACKOFF_MS * attempt

\* One attempt of the retry loop succeeds.
WriteChunkOk(f) ==
    /\ run.kind = "backup"
    /\ f \in DOMAIN tasks
    /\ tasks[f].pc = "write"
    /\ LET path == ChunkPath(KEY, Sha256(CurrentChunk(f)))
       IN  /\ store' = write_file(store, path,
                           EncodeChunk(CurrentChunk(f), run.compress, run.password))
           /\ run' = [run EXCEPT !.written_paths = @ \cup {path}]
    /\ tasks' = [tasks EXCEPT ![f].pc = "record", ![f].tries = Append(@, "ok")]
    /\ UNCHANGED <<pw, clock, source, target, watcher, hits, nother,
                   last, prev, clean>>

\* One attempt of the retry loop fails: sleep and retry, or give up after the last.
WriteChunkErr(f) ==
    /\ run.kind = "backup"
    /\ f \in DOMAIN tasks
    /\ tasks[f].pc = "write"
    /\ run.hit
    /\ IF tasks[f].attempt < RETRY_ATTEMPTS
       THEN /\ tasks' = [tasks EXCEPT ![f].attempt = @ + 1,
                                      ![f].tries = Append(@, "err"),
                                      ![f].slept = Append(@, Backoff(tasks[f].attempt))]
            /\ run' = run
       ELSE /\ tasks' = [tasks EXCEPT ![f].pc = "failed",
                                      ![f].tries = Append(@, "err"),
                                      ![f].error = "Failed to write chunk"]
            /\ run' = [run EXCEPT !.results =
                          Append(@, [file |-> f, ok |-> FALSE,
                                     err |-> "Failed to write chunk"])]
    /\ UNCHANGED <<store, pw, clock, source, target, watcher, hits, nother,
                   last, prev, clean>>

\* A record step that appends the hash of the file for the hash of the chunk.
RecordFileHash(f) ==
    /\ run.kind = "backup"
    /\ f \in DOMAIN tasks
    /\ tasks[f].pc = "record"
    /\ run' = [run EXCEPT
                 !.written_bytes = @ + Len(CurrentChunk(f)),
                 !.pending_backup.processed_chunks = Append(@, Sha256(source[f].content))]
    /\ tasks' = [tasks EXCEPT ![f].pc = "read", ![f].off = @ + Len(CurrentChunk(f))]
    /\ UNCHANGED <<store, pw, clock, source, target, watcher, hits, nother,
                   last, prev, clean>>

\* After a successful upload: written bytes and the journal's processed_chunks.
RecordChunk(f) ==
    /\ run.kind = "backup"
    /\ f \in DOMAIN tasks
    /\ tasks[f].pc = "record"
    /\ run' = [run EXCEPT
                 !.written_bytes = @ + Len(CurrentChunk(f)),
                 !.pending_backup.processed_chunks = Append(@, Sha256(CurrentChunk(f)))]
    /\ tasks' = [tasks EXCEPT ![f].pc = "read", ![f].off = @ + Len(CurrentChunk(f))]
    /\ UNCHANGED <<store, pw, clock, source, target, watcher, hits, nother,
                   last, prev, clean>>

\* watch_pending_backup: a tick, the stop-flag check, the serialisation of the
\* journal under its lock.
SerializePending(pending_backup) == to_vec_named(pending_backup)

\* A journal thread that does not look at the stop flag.
WatcherTickBlind ==
    /\ run.kind = "backup"
    /\ watcher.pc = "tick"
    /\ watcher.ticks < MaxTicks
    /\ watcher' = [pc |-> "write", ticks |-> watcher.ticks + 1,
                   bytes |-> SerializePending(run.pending_backup)]
    /\ UNCHANGED <<store, pw, clock, source, target, run, tasks, hits, nother,
                   last, prev, clean>>

WatcherTick ==
    /\ run.kind = "backup"
    /\ watcher.pc = "tick"
    /\ run.stop \/ watcher.ticks < MaxTicks
    /\ watcher' = IF run.stop
                  THEN [watcher EXCEPT !.pc = "exit"]
                  ELSE [pc |-> "write", ticks |-> watcher.ticks + 1,
                        bytes |-> SerializePending(run.pending_backup)]
    /\ UNCHANGED <<store, pw, clock, source, target, run, tasks, hits, nother,
                   last, prev, clean>>

\* watch_pending_backup: fs.write_file of the serialised journal; the result
\* is dropped.
WatcherWrite ==
    /\ run.kind = "backup"
    /\ watcher.pc = "write"
    /\ LET path == PendingBackupPath(KEY, run.new_backup.hash)
       IN  \/ /\ store' = write_file(store, path, watcher.bytes)
              /\ run' = [run EXCEPT !.written_paths = @ \cup {path}]
           \/ run.hit /\ UNCHANGED <<store, run>>
    /\ watcher' = [watcher EXCEPT !.pc = "tick", !.bytes = EmptyBytes]
    /\ UNCHANGED <<pw, clock, source, target, tasks, hits, nother, last, prev, clean>>

\* A join loop that drops the errors of the tasks.
RECURSIVE NoFailedFiles(_)
NoFailedFiles(results) == <<>>

\* load_pending_backup_entry, up to the decoded journal: the blob is read,
\* decrypted when it is framed, decompressed and deserialised.
decode_pending_backup(st, pending_path, password) ==
    LET pending_result == read_file_maybe_decrypt(st, pending_path, password,
                              "Pending backup is encrypted but no password provided")
        decompressed_bytes == decompress_bytes(pending_result.val.bytes)
    IN  IF ~pending_result.ok THEN pending_result
        ELSE IF pending_result.val.bytes = EmptyBytes THEN Err("Pending backup is empty")
        ELSE IF ~decompressed_bytes.ok THEN decompressed_bytes
        ELSE from_slice(decompressed_bytes.val)

\* load_pending_backup_entry: the entry the pending listing shows.
load_pending_backup_entry(st, pending_path, password) ==
    LET pending_backup == decode_pending_backup(st, pending_path, password)
    IN  IF ~pending_backup.ok THEN pending_backup
        ELSE Ok([message |-> pending_backup.val.message,
                 uploaded_chunks |-> Len(pending_backup.val.processed_chunks),
                 chunk_size_bytes |-> pending_backup.val.chunk_size])

\* The errors of the failed tasks, in the order the tasks completed.
RECURSIVE FailedFiles(_)
FailedFiles(results) ==
    IF results = <<>> THEN <<>>
    ELSE (IF Head(results).ok THEN <<>> ELSE <<Head(results).err>>)
         \o FailedFiles(Tail(results))

\* backup(): the join loop over the per-file tasks, the stop flag, and the
\* exit when some file failed.
JoinAll ==
    /\ run.kind = "backup"
    /\ run.pc = "join"
    /\ \A f \in DOMAIN tasks : Finished(tasks[f])
    /\ LET failed_files == FailedFiles(run.results)
           r == [run EXCEPT !.stop = TRUE, !.failed_files = failed_files]
       IN  IF failed_files # <<>>
           THEN Finish(BackupSummaryOf(r, "error", "Failed to process files"))
           ELSE /\ run' = [r EXCEPT !.pc = "persist"]
                /\ UNCHANGED <<tasks, watcher, last, prev, clean>>
    /\ UNCHANGED <<store, pw, clock, source, target, hits, nother>>

\* The bytes of the chunk index and of the manifest that backup() persists.
ChunkIndexBytes(indexes, compress, password) ==
    maybe_encrypt(compress_bytes(to_vec_named(indexes), compress), password)
BackupFileBytes(backup, compress, password) ==
    maybe_encrypt(compress_bytes(to_vec_named(backup), compress), password)

\* backup(): write_chunk_index_future, one half of the tokio::join!.
WriteChunkIndex ==
    /\ run.kind = "backup"
    /\ run.pc = "persist"
    /\ run.index_result = "none"
    /\ \/ /\ store' = write_file(store, ChunkIndexPath(KEY),
                         ChunkIndexBytes(run.chunk_indexes, run.compress, run.password))
          /\ run' = [run EXCEPT !.index_result = "ok", !.attempts.index = @ + 1,
                                !.written_paths = @ \cup {ChunkIndexPath(KEY)}]
       \/ /\ run.hit
          /\ store' = store
          /\ run' = [run EXCEPT !.index_result = "err", !.attempts.index = @ + 1]
    /\ UNCHANGED <<pw, clock, source, target, tasks, watcher, hits, nother,
                   last, prev, clean>>

\* backup(): write_backup_file_future, the other half of the tokio::join!.
WriteBackupFile ==
    /\ run.kind = "backup"
    /\ run.pc = "persist"
    /\ run.manifest_result = "none"
    /\ LET path == BackupFilePath(KEY, run.new_backup.hash)
       IN  \/ /\ store' = write_file(store, path,
                             BackupFileBytes(run.new_backup, run.compress, run.password))
              /\ run' = [run EXCEPT !.manifest_result = "ok", !.attempts.manifest = @ + 1,
                                    !.written_paths = @ \cup {path}]
           \/ /\ run.hit
              /\ store' = store
              /\ run' = [run EXCEPT !.manifest_result = "err",
                                    !.attempts.manifest = @ + 1]
    /\ UNCHANGED <<pw, clock, source, target, tasks, watcher, hits, nother,
                   last, prev, clean>>

\* backup(): the two results of the join are examined, index first.
CheckPersist ==
    /\ run.kind = "backup"
    /\ run.pc = "persist"
    /\ run.index_result # "none"
    /\ run.manifest_result # "none"
    /\ IF run.index_result = "err"
       THEN Finish(BackupSummaryOf(run, "error", "Failed to write chunk indexes"))
       ELSE IF run.manifest_result = "err"
       THEN Finish(BackupSummaryOf(run, "error", "Failed to write backup file"))
       ELSE /\ run' = [run EXCEPT !.pc = "summary"]
            /\ UNCHANGED <<tasks, watcher, last, prev, clean>>
    /\ UNCHANGED <<store, pw, clock, source, target, hits, nother>>

\* backup(): add_backup_summary reads the list, prepends, writes it back.
AddBackupSummary ==
    /\ run.kind = "backup"
    /\ run.pc = "summary"
    /\ LET listed == list_backup_summaries(store, KEY, run.password)
           r == [run EXCEPT !.attempts.summaries = @ + 1]
       IN  IF ~listed.ok
           THEN /\ Finish(BackupSummaryOf(run, "error", "Failed to save backup summary"))
                /\ UNCHANGED store
           ELSE \/ /\ store' = write_file(store, BackupIndexPath(KEY),
                                  add_backup_summary_bytes(listed.val, run.new_backup,
                                      run.compress, run.password, run.written_bytes))
                   /\ run' = [r EXCEPT !.pc = "cleanup",
                                       !.written_paths = @ \cup {BackupIndexPath(KEY)}]
                   /\ UNCHANGED <<tasks, watcher, last, prev, clean>>
                \/ /\ run.hit
                   /\ store' = store
                   /\ Finish(BackupSummaryOf(r, "error", "Failed to save backup summary"))
    /\ UNCHANGED <<pw, clock, source, target, hits, nother>>

\* backup(): let _ = fs.delete_file(pending_backup_path)
DeletePending ==
    /\ run.kind = "backup"
    /\ run.pc = "cleanup"
    /\ \/ /\ store' = delete_file(store, PendingBackupPath(KEY, run.new_backup.hash))
       \/ /\ run.hit
          /\ store' = store
    /\ run' = [run EXCEPT !.pc = "exit"]
    /\ UNCHANGED <<pw, clock, source, target, tasks, watcher, hits, nother,
                   last, prev, clean>>

\* backup() returns and the process ends.
BackupExit ==
    /\ run.kind = "backup"
    /\ run.pc = "exit"
    /\ Finish(BackupSummaryOf(run, "ok", ""))
    /\ UNCHANGED <<store, pw, clock, source, target, hits, nother>>

\* ---------------------------------------------------------------- delete
\* load_backup: the manifest of a backup, an error when the blob is absent,
\* empty or unreadable.
load_backup(st, key, password, backup_hash) ==
    LET read_result == read_file_maybe_decrypt(st, BackupFilePath(key, backup_hash), password,
                           "Backup is encrypted but no password provided")
        unz == decompress_bytes(read_result.val.bytes)
    IN  IF ~read_result.ok THEN read_result
        ELSE IF read_result.val.bytes = EmptyBytes THEN Err("Backup not found or is empty")
        ELSE IF ~unz.ok THEN unz
        ELSE from_slice(unz.val)

\* The elements of a finite set in some order.
RECURSIVE SeqOfSet(_)
SeqOfSet(S) ==
    IF S = {} THEN <<>>
    ELSE LET x == CHOOSE y \in S : TRUE IN <<x>> \o SeqOfSet(S \ {x})

Range(seq) == {seq[i] : i \in DOMAIN seq}

\* The chunk hashes of a manifest, file after file, each file's in order.
RECURSIVE ChunksOfFiles(_, _)
ChunksOfFiles(tree, files) ==
    IF files = <<>> THEN <<>>
    ELSE tree[Head(files)].chunks \o ChunksOfFiles(tree, Tail(files))
TreeChunks(tree) == ChunksOfFiles(tree, SeqOfSet(DOMAIN tree))

\* A turn of the loop that takes the first reference for the last one.
DropOnFirstReference(acc, chunk_hash) ==
    IF chunk_hash \in DOMAIN acc.indexes /\ acc.indexes[chunk_hash] > 0
    THEN [indexes |-> [acc.indexes EXCEPT ![chunk_hash] = 0],
          chunks_to_delete |-> Append(acc.chunks_to_delete, chunk_hash)]
    ELSE acc

\* delete(): one turn of the inner loop over a manifest's chunk hashes.
DecrementRefcount(acc, chunk_hash) ==
    IF chunk_hash \in DOMAIN acc.indexes /\ acc.indexes[chunk_hash] > 0
    THEN LET refcount == acc.indexes[chunk_hash] - 1
         IN  [indexes |-> [acc.indexes EXCEPT ![chunk_hash] = refcount],
              chunks_to_delete |-> IF refcount = 0
                                   THEN Append(acc.chunks_to_delete, chunk_hash)
                                   ELSE acc.chunks_to_delete]
    ELSE acc

\* A loop that releases one reference for each distinct hash of a manifest.
RECURSIVE DecrementDistinct(_, _)
DecrementDistinct(acc, hashes) ==
    IF hashes = <<>> THEN acc
    ELSE IF \E i \in DOMAIN Tail(hashes) : Tail(hashes)[i] = Head(hashes)
        THEN DecrementDistinct(acc, Tail(hashes))
    ELSE DecrementDistinct(DecrementRefcount(acc, Head(hashes)), Tail(hashes))

RECURSIVE DecrementAll(_, _)
DecrementAll(acc, hashes) ==
    IF hashes = <<>> THEN acc
    ELSE DecrementAll(DecrementRefcount(acc, Head(hashes)), Tail(hashes))

\* An index from which nothing is removed.
KeepChunks(indexes, chunks_to_delete) == indexes

\* delete(): the index without the entries of chunks_to_delete.
RemoveChunks(indexes, chunks_to_delete) ==
    [k \in DOMAIN indexes \ Range(chunks_to_delete) |-> indexes[k]]

\* A filter that drops the newest summary whatever its hash.
DropNewest(summaries, full_backup_hash) ==
    IF summaries = <<>> THEN <<>> ELSE Tail(summaries)

\* backup_summaries.retain(|summary| summary.hash != full_backup_hash)
RetainOthers(summaries, full_backup_hash) ==
    SelectSeq(summaries, LAMBDA summary : summary.hash # full_backup_hash)

\* The bytes delete() writes for the summaries list.
BackupSummariesBytes(summaries, password) ==
    maybe_encrypt(compress_bytes(to_vec_named(summaries), DELETE_COMPRESS_LEVEL), password)

DeleteSummaryOf(r, outcome, error) ==
    [kind |-> "delete", outcome |-> outcome, error |-> error, hash |-> r.hash_of,
     pc |-> r.pc, store_before |-> r.store_before,
     chunks_to_delete |-> r.chunks_to_delete, failed_chunks |-> r.failed_chunks]

\* delete(): the three loads, the summaries filter, the decrement loop and the
\* removal of the entries that reached zero.
StartDelete(backup_hash, hit) ==
    /\ run.kind = "idle"
    /\ nother < MaxOther
    /\ nother' = nother + 1
    /\ Begin
    /\ Strike(hit)
    /\ LET backup == load_backup(store, KEY, pw, backup_hash)
           loaded == load_chunk_indexes(store, KEY, pw)
           listed == list_backup_summaries(store, KEY, pw)
           failed == [kind |-> "delete", outcome |-> "error", hash |-> backup_hash,
                      pc |-> "load", store_before |-> store,
                      chunks_to_delete |-> <<>>, failed_chunks |-> <<>>,
                      error |-> IF ~backup.ok THEN "Failed to load backup"
                                ELSE IF ~loaded.ok THEN "Failed to load chunk indexes"
                                ELSE "Failed to load backup summaries"]
       IN  IF ~backup.ok \/ ~loaded.ok \/ ~listed.ok
           THEN Exit(failed)
           ELSE LET acc == DecrementAll([indexes |-> loaded.val.indexes,
                                         chunks_to_delete |-> <<>>],
                                        TreeChunks(backup.val.tree))
                IN  /\ run' = [kind |-> "delete", pc |-> "persist", hit |-> hit,
                               password |-> pw, hash_of |-> backup_hash,
                               backup |-> backup.val,
                               chunk_indexes |-> RemoveChunks(acc.indexes,
                                                              acc.chunks_to_delete),
                               backup_summaries |-> RetainOthers(listed.val, backup_hash),
                               chunks_to_delete |-> acc.chunks_to_delete,
                               index_result |-> "none", summaries_result |-> "none",
                               pending |-> Range(acc.chunks_to_delete),
                               failed_chunks |-> <<>>, store_before |-> store]
                    /\ last' = NoCommand
                    /\ UNCHANGED <<tasks, watcher, clean>>
    /\ UNCHANGED <<store, pw, clock, source, target>>

\* delete(): write_chunk_index_future, one half of the tokio::join!.
DeleteWriteChunkIndex ==
    /\ run.kind = "delete"
    /\ run.pc = "persist"
    /\ run.index_result = "none"
    /\ \/ /\ store' = write_file(store, ChunkIndexPath(KEY),
                         ChunkIndexBytes(run.chunk_indexes, DELETE_COMPRESS_LEVEL,
                                         run.password))
          /\ run' = [run EXCEPT !.index_result = "ok"]
       \/ /\ run.hit
          /\ store' = store
          /\ run' = [run EXCEPT !.index_result = "err"]
    /\ UNCHANGED <<pw, clock, source, target, tasks, watcher, hits, nother,
                   last, prev, clean>>

\* delete(): write_backup_index_future, the other half of the tokio::join!.
DeleteWriteBackupIndex ==
    /\ run.kind = "delete"
    /\ run.pc = "persist"
    /\ run.summaries_result = "none"
    /\ \/ /\ store' = write_file(store, BackupIndexPath(KEY),
                         BackupSummariesBytes(run.backup_summaries, run.password))
          /\ run' = [run EXCEPT !.summaries_result = "ok"]
       \/ /\ run.hit
          /\ store' = store
          /\ run' = [run EXCEPT !.summaries_result = "err"]
    /\ UNCHANGED <<pw, clock, source, target, tasks, watcher, hits, nother,
                   last, prev, clean>>

\* A check of the join that looks at the chunk index result alone.
DeleteCheckIndexOnly ==
    /\ run.kind = "delete"
    /\ run.pc = "persist"
    /\ run.index_result # "none"
    /\ run.summaries_result # "none"
    /\ IF run.index_result = "err"
       THEN Finish(DeleteSummaryOf(run, "error", "Failed to write chunk indexes"))
       ELSE /\ run' = [run EXCEPT !.pc = "manifest"]
            /\ UNCHANGED <<tasks, watcher, last, prev, clean>>
    /\ UNCHANGED <<store, pw, clock, source, target, hits, nother>>

\* delete(): the two results of the join are examined, index first.
DeleteCheckPersist ==
    /\ run.kind = "delete"
    /\ run.pc = "persist"
    /\ run.index_result # "none"
    /\ run.summaries_result # "none"
    /\ IF run.index_result = "err"
       THEN Finish(DeleteSummaryOf(run, "error", "Failed to write chunk indexes"))
       ELSE IF run.summaries_result = "err"
       THEN Finish(DeleteSummaryOf(run, "error", "Failed to write backup index"))
       ELSE /\ run' = [run EXCEPT !.pc = "manifest"]
            /\ UNCHANGED <<tasks, watcher, last, prev, clean>>
    /\ UNCHANGED <<store, pw, clock, source, target, hits, nother>>

\* fs.delete_file can fail when the environment makes it, and on the local
\* file system it fails for an absent path (on S3 it does not).
DeleteFails(st, path, hit) == hit \/ path \notin DOMAIN st

\* delete(): the manifest is deleted; without orphaned chunks the command ends.
DeleteBackupFile ==
    /\ run.kind = "delete"
    /\ run.pc = "manifest"
    /\ LET path == BackupFilePath(KEY, run.hash_of)
       IN  \/ /\ store' = delete_file(store, path)
              /\ IF run.chunks_to_delete = <<>>
                 THEN Finish(DeleteSummaryOf(run, "ok", ""))
                 ELSE /\ run' = [run EXCEPT !.pc = "chunks"]
                      /\ UNCHANGED <<tasks, watcher, last, prev, clean>>
           \/ /\ DeleteFails(store, path, run.hit)
              /\ store' = store
              /\ Finish(DeleteSummaryOf(run, "error", "Failed to delete backup file"))
    /\ UNCHANGED <<pw, clock, source, target, hits, nother>>

\* delete(): one task of the JoinSet deletes its orphaned chunk.
DeleteChunk(chunk_hash) ==
    /\ run.kind = "delete"
    /\ run.pc = "chunks"
    /\ chunk_hash \in run.pending
    /\ LET chunk_path == ChunkPath(KEY, chunk_hash)
       IN  \/ /\ store' = delete_file(store, chunk_path)
              /\ run' = [run EXCEPT !.pending = @ \ {chunk_hash}]
           \/ /\ DeleteFails(store, chunk_path, run.hit)
              /\ store' = store
              /\ run' = [run EXCEPT !.pending = @ \ {chunk_hash},
                                    !.failed_chunks = Append(@, chunk_hash)]
    /\ UNCHANGED <<pw, clock, source, target, tasks, watcher, hits, nother,
                   last, prev, clean>>

\* delete(): every task joined; the failures, if any, end the command.
DeleteJoin ==
    /\ run.kind = "delete"
    /\ run.pc = "chunks"
    /\ run.pending = {}
    /\ IF run.failed_chunks # <<>>
       THEN Finish(DeleteSummaryOf(run, "error", "Failed to delete chunks"))
       ELSE Finish(DeleteSummaryOf(run, "ok", ""))
    /\ UNCHANGED <<store, pw, clock, source, target, hits, nother>>

\* ---------------------------------------------------------------- prune
\* A key made of the last segment alone.
LastSegment(chunk) == chunk[Len(chunk)]

\* The index key prune() rebuilds from a listed path: the last two segments
\* joined, or the whole path when it has a single segment.
ReconstructKey(chunk) ==
    IF Len(chunk) >= 2 THEN chunk[Len(chunk) - 1] \o chunk[Len(chunk)]
    ELSE chunk[1]

\* prune(): the listed chunk paths whose key the index does not contain.
UnindexedChunks(chunks, chunk_indexes) ==
    {chunk \in chunks : ReconstructKey(chunk) \notin DOMAIN chunk_indexes}

\* A selection that overlooks the journals.
NoPendingBackups(indexes) == {}

\* prune(): the listed index paths whose last segment starts with "pending_".
PendingBackups(indexes) ==
    {index \in indexes : StartsWith(index[Len(index)], <<"pending_">>)}

PruneSummaryOf(r, outcome, error) ==
    [kind |-> "prune", outcome |-> outcome, error |-> error, hash |-> <<>>,
     pc |-> r.pc, store_before |-> r.store_before,
     chunk_indexes |-> r.chunk_indexes, chunks_to_prune |-> r.chunks_to_prune,
     issued |-> r.issued]

\* prune(): the index is loaded, the two folders are listed, the paths to
\* delete are selected.
StartPrune(hit) ==
    /\ run.kind = "idle"
    /\ nother < MaxOther
    /\ nother' = nother + 1
    /\ Begin
    /\ Strike(hit)
    /\ LET loaded == load_chunk_indexes(store, KEY, pw)
           chunks == list_files(store, ChunksFolder(KEY))
           pending_backups == PendingBackups(list_files(store, IndexesFolder(KEY)))
           r == [kind |-> "prune", pc |-> "delete", hit |-> hit, hash_of |-> <<>>,
                 chunk_indexes |-> IF loaded.ok THEN loaded.val.indexes ELSE EmptyMap,
                 chunks_to_prune |->
                     IF loaded.ok
                     THEN UnindexedChunks(chunks, loaded.val.indexes) \cup pending_backups
                     ELSE {},
                 pending |-> {}, issued |-> {}, store_before |-> store]
       IN  IF ~loaded.ok
           THEN Exit(PruneSummaryOf([r EXCEPT !.pc = "load"], "error", loaded.err))
           ELSE IF r.chunks_to_prune = {}
           THEN Exit(PruneSummaryOf(r, "ok", ""))
           ELSE /\ run' = [r EXCEPT !.pending = r.chunks_to_prune]
                /\ last' = NoCommand
                /\ UNCHANGED <<tasks, watcher, clean>>
    /\ UNCHANGED <<store, pw, clock, source, target>>

\* prune(): one task of the JoinSet: let _ = fs.delete_file(path).
PruneDelete(path) ==
    /\ run.kind = "prune"
    /\ path \in run.pending
    /\ \/ store' = delete_file(store, path)
       \/ /\ DeleteFails(store, path, run.hit)
          /\ store' = store
    /\ run' = [run EXCEPT !.pending = @ \ {path}, !.issued = @ \cup {path}]
    /\ UNCHANGED <<pw, clock, source, target, tasks, watcher, hits, nother,
                   last, prev, clean>>

\* prune(): every task joined; no task ever reports a failure.
PruneJoin ==
    /\ run.kind = "prune"
    /\ run.pending = {}
    /\ Finish(PruneSummaryOf(run, "ok", ""))
    /\ UNCHANGED <<store, pw, clock, source, target, hits, nother>>

\* ---------------------------------------------------------------- restore
\* The mode File::create gives a new file under the usual umask.
CreateMode == Mode644

\* st_mode of a directory: the type bits; the restore target holds its files
\* and its directories, a directory being an entry without content.
S_IFDIR == 4 * 8 * 8 * 8 * 8
NewDir == [content |-> <<>>, mode |-> S_IFDIR + Mode755]
IsDir(entry) == entry.mode \div PermMask = S_IFDIR \div PermMask
IsFileAt(dir, path) == path \in DOMAIN dir /\ ~IsDir(dir[path])

\* The directories above a relative path, the target itself left out.
Parents(path) == {SubSeq(path, 1, i) : i \in 1..(Len(path) - 1)}
\* Does the directory hold any entry?
HasEntries(dir, d) == \E k \in DOMAIN dir : Len(k) > Len(d) /\ StartsWith(k, d)

\* std::fs::create_dir_all(parent): the missing directories above a path are
\* made, up to the first component that exists and is not a directory.
create_dir_all(dir, path) ==
    LET blocked == {d \in Parents(path) : IsFileAt(dir, d)}
        made == {d \in Parents(path) :
                    /\ d \notin DOMAIN dir
                    /\ \A b \in blocked : Len(d) < Len(b)}
    IN  [ok |-> blocked = {},
         dir |-> [k \in DOMAIN dir \cup made |-> IF k \in DOMAIN dir THEN dir[k] ELSE NewDir]]

\* restore(): the chunk loop of one file: every chunk is read, decrypted,
\* decompressed and appended; the first failure ends the loop.
RECURSIVE WriteChunks(_, _, _, _)
WriteChunks(st, password, chunks, written) ==
    IF chunks = <<>> THEN [ok |-> TRUE, content |-> written, err |-> ""]
    ELSE LET chunk_data == read_file_maybe_decrypt(st, ChunkPath(KEY, Head(chunks)), password,
                               "Chunk is encrypted but no password provided")
             decompressed == decompress_bytes(chunk_data.val.bytes)
         IN  IF ~chunk_data.ok
                 THEN [ok |-> FALSE, content |-> written, err |-> "Failed to read chunk"]
             ELSE IF ~decompressed.ok
                 THEN [ok |-> FALSE, content |-> written, err |-> decompressed.err]
             ELSE WriteChunks(st, password, Tail(chunks), written \o decompressed.val)

\* calculate_file_hash of a local file.
calculate_file_hash(file) == Sha256(file.content)

\* restore(): the per-file task: skip an identical file, else make its parent
\* directories, create it, write its chunks and set its permissions.  The
\* local directory it leaves, and its result.
restore_file(st, password, dir, relative_path, backup_object) ==
    LET exists == relative_path \in DOMAIN dir
        needs_restore == IF IsFileAt(dir, relative_path)
                         THEN calculate_file_hash(dir[relative_path]) # backup_object.hash
                         ELSE TRUE
        parent == create_dir_all(dir, relative_path)
        created_mode == IF exists THEN dir[relative_path].mode ELSE CreateMode
        w == WriteChunks(st, password, backup_object.chunks, <<>>)
    IN  IF ~needs_restore
            THEN [dir |-> dir, outcome |-> "skipped", err |-> ""]
        ELSE IF ~parent.ok
            THEN [dir |-> parent.dir, outcome |-> "failed",
                  err |-> "Failed to create parent directory"]
        ELSE IF exists /\ IsDir(dir[relative_path])
            THEN [dir |-> parent.dir, outcome |-> "failed", err |-> "Failed to create file"]
        ELSE IF ~w.ok
            THEN [dir |-> InsertTree(parent.dir, relative_path,
                                     [content |-> w.content, mode |-> created_mode]),
                  outcome |-> "failed", err |-> w.err]
        ELSE [dir |-> InsertTree(parent.dir, relative_path,
                                 [content |-> w.content, mode |-> backup_object.permissions]),
              outcome |-> "restored", err |-> ""]

\* OnlyRequest: no selection, or a list of normalized paths.
OnlyNone == [kind |-> "None", paths |-> <<>>]
OnlyPaths(paths) == [kind |-> "Paths", paths |-> paths]

\* The manifest keys a path selects when every path selects only the key equal
\* to it.
MatchesExactly(backup_tree, path) == {k \in DOMAIN backup_tree : k = path}

\* filter_only_paths: the keys one path selects: the key equal to it, or else
\* the keys that start with the path and a '/'.
Matches(backup_tree, path) ==
    IF path \in DOMAIN backup_tree THEN {path}
    ELSE {k \in DOMAIN backup_tree : Len(k) > Len(path) /\ StartsWith(k, path)}

\* filter_only_paths: the selected part of the manifest, an error for an empty
\* list or for a path that selects nothing.
filter_only_paths(backup_tree, only_paths) ==
    LET selected == UNION {Matches(backup_tree, only_paths[i]) : i \in DOMAIN only_paths}
    IN  IF only_paths = <<>> THEN Err("No paths selected")
        ELSE IF \E i \in DOMAIN only_paths : Matches(backup_tree, only_paths[i]) = {}
            THEN Err("No files found for path")
        ELSE Ok([k \in selected |-> backup_tree[k]])

\* restore(): files_to_restore.
files_to_restore(backup_tree, only_request) ==
    IF only_request.kind = "None" THEN Ok(backup_tree)
    ELSE filter_only_paths(backup_tree, only_request.paths)

\* cleanup_extra_files: the directories a pass over the candidates of one depth
\* and of the depths above it removes: those that exist and are empty by then.
RECURSIVE RemoveEmptyDirs(_, _, _)
RemoveEmptyDirs(dir, dirs_to_check, depth) ==
    IF depth = 0 THEN dir
    ELSE LET gone == {d \in dirs_to_check :
                         /\ Len(d) = depth
                         /\ d \in DOMAIN dir
                         /\ IsDir(dir[d])
                         /\ ~HasEntries(dir, d)}
         IN  RemoveEmptyDirs([k \in DOMAIN dir \ gone |-> dir[k]], dirs_to_check, depth - 1)

MaxDepth(paths) == IF paths = {} THEN 0
                   ELSE CHOOSE n \in {Len(p) : p \in paths} : \A p \in paths : Len(p) <= n

\* A cleanup that removes every file of the target.
cleanup_every_file(dir, backup_tree) ==
    LET extra == {p \in DOMAIN dir : ~IsDir(dir[p])}
        kept == [k \in DOMAIN dir \ extra |-> dir[k]]
        dirs_to_check == UNION {Parents(p) : p \in extra}
    IN  [dir |-> RemoveEmptyDirs(kept, dirs_to_check, MaxDepth(dirs_to_check)),
         deleted_count |-> Cardinality(extra)]

\* cleanup_extra_files: every file of the target that is no key of the manifest
\* is removed, then the directories above the removed files, deepest first,
\* when they are empty.
cleanup_extra_files(dir, backup_tree) ==
    LET extra == {p \in DOMAIN dir : ~IsDir(dir[p]) /\ p \notin DOMAIN backup_tree}
        kept == [k \in DOMAIN dir \ extra |-> dir[k]]
        dirs_to_check == UNION {Parents(p) : p \in extra}
    IN  [dir |-> RemoveEmptyDirs(kept, dirs_to_check, MaxDepth(dirs_to_check)),
         deleted_count |-> Cardinality(extra)]

RestoreSummaryOf(r, outcome, error) ==
    [kind |-> "restore", outcome |-> outcome, error |-> error, hash |-> r.hash_of,
     pc |-> r.pc, store_before |-> r.store_before, target_before |-> r.target_before,
     failed_files |-> r.failed_files, restored_files |-> r.restored_files,
     skipped_files |-> r.skipped_files, deleted_local |-> r.deleted_local,
     password |-> r.password, only |-> r.only, prune_local |-> r.prune_local,
     tree |-> r.tree, outcomes |-> r.outcomes, unread |-> r.unread]

\* restore(): the parameters are parsed, the manifest is loaded, the files to
\* restore are selected and one task per file is spawned.
StartRestoreWith(backup_hash, password, only_request, prune_local) ==
    /\ run.kind = "idle"
    /\ nother < MaxOther
    /\ nother' = nother + 1
    /\ Begin
    /\ LET backup == load_backup(store, KEY, password, backup_hash)
           files == files_to_restore(IF backup.ok THEN backup.val.tree ELSE EmptyMap,
                                     only_request)
           r == [kind |-> "restore", pc |-> "files", hit |-> FALSE, password |-> password,
                 hash_of |-> backup_hash, only |-> only_request,
                 prune_local |-> prune_local,
                 tree |-> IF backup.ok THEN backup.val.tree ELSE EmptyMap,
                 pending |-> IF backup.ok /\ files.ok THEN DOMAIN files.val ELSE {},
                 failed_files |-> <<>>, restored_files |-> 0, skipped_files |-> 0,
                 deleted_local |-> 0, outcomes |-> EmptyMap, unread |-> {},
                 store_before |-> store, target_before |-> target]
       IN  IF only_request.kind = "Paths" /\ prune_local
           THEN Exit(RestoreSummaryOf([r EXCEPT !.pc = "params", !.tree = EmptyMap], "error",
                                      "--only cannot be used together with --prune-local"))
           ELSE IF ~backup.ok
           THEN Exit(RestoreSummaryOf([r EXCEPT !.pc = "load"], "error", backup.err))
           ELSE IF ~files.ok
           THEN Exit(RestoreSummaryOf([r EXCEPT !.pc = "only"], "error", files.err))
           ELSE /\ run' = r
                /\ last' = NoCommand
                /\ UNCHANGED <<tasks, watcher, clean>>
    /\ UNCHANGED <<store, pw, clock, source, target, hits>>

\* restore of a whole backup with the password of the repository.
StartRestore(backup_hash) == StartRestoreWith(backup_hash, pw, OnlyNone, FALSE)

\* restore(): one per-file task runs, its reads seeing the store as seen.  What
\* each task ended with is remembered, and which tasks met a chunk whose read
\* failed.
RestoreFileReading(relative_path, seen) ==
    /\ run.kind = "restore"
    /\ relative_path \in run.pending
    /\ LET res == restore_file(seen, run.password, target, relative_path,
                               run.tree[relative_path])
       IN  /\ target' = res.dir
           /\ run' = [run EXCEPT
                        !.pending = @ \ {relative_path},
                        !.outcomes = InsertTree(@, relative_path, res.outcome),
                        !.unread = IF seen # store /\ res.outcome # "skipped"
                                   THEN @ \cup {relative_path} ELSE @,
                        !.failed_files = IF res.outcome = "failed"
                                         THEN Append(@, res.err) ELSE @,
                        !.restored_files = IF res.outcome = "restored" THEN @ + 1 ELSE @,
                        !.skipped_files = IF res.outcome = "skipped" THEN @ + 1 ELSE @]
    /\ UNCHANGED <<store, pw, clock, source, tasks, watcher, hits, nother,
                   last, prev, clean>>

\* A per-file task whose reads the back-end serves.
RestoreFile(relative_path) == RestoreFileReading(relative_path, store)

\* A per-file task for which the read of one of its chunks fails: the blob is
\* missing, or the back-end returns an I/O error.
RestoreFileUnreadable(relative_path, chunk_hash) ==
    /\ run.kind = "restore"
    /\ relative_path \in run.pending
    /\ chunk_hash \in Range(run.tree[relative_path].chunks)
    /\ ChunkPath(KEY, chunk_hash) \in DOMAIN store
    /\ RestoreFileReading(relative_path, Unreadable(store, {ChunkPath(KEY, chunk_hash)}))

\* restore(): every task joined; the failures, if any, end the command; else
\* the local files that are not in the backup are cleaned up when asked.
RestoreJoin ==
    /\ run.kind = "restore"
    /\ run.pending = {}
    /\ LET cleaned == cleanup_extra_files(target, run.tree)
       IN  IF run.failed_files # <<>>
           THEN /\ Finish(RestoreSummaryOf(run, "error", "Failed to restore files"))
                /\ UNCHANGED target
           ELSE IF run.prune_local
           THEN /\ target' = cleaned.dir
                /\ Finish(RestoreSummaryOf([run EXCEPT !.deleted_local = cleaned.deleted_count],
                                           "ok", ""))
           ELSE /\ Finish(RestoreSummaryOf(run, "ok", ""))
                /\ UNCHANGED target
    /\ UNCHANGED <<store, pw, clock, source, hits, nother>>

\* The process is killed while a command runs.
CrashSummary ==
    [kind |-> run.kind, outcome |-> "crashed", hash |-> run.hash_of,
     tasks_unfinished |-> CountTasks({"read", "write", "record"}),
     pc |-> run.pc, store_before |-> run.store_before]

Crash ==
    /\ run.kind # "idle"
    /\ run.hit
    /\ Finish(CrashSummary)
    /\ UNCHANGED <<store, pw, clock, source, target, hits, nother>>

\* What the tasks of the running delete, prune or restore still have to do.
Pending == IF run.kind \in {"delete", "prune", "restore"} THEN run.pending ELSE {}

\* The steps of a running backup other than a failed chunk upload.
BackupSteps ==
    \/ \E f \in DOMAIN tasks : ReadChunk(f)
    \/ \E f \in DOMAIN tasks : WriteChunkOk(f)
    \/ \E f \in DOMAIN tasks : RecordChunk(f)
    \/ JoinAll
    \/ WriteChunkIndex
    \/ WriteBackupFile
    \/ CheckPersist
    \/ AddBackupSummary
    \/ DeletePending
    \/ BackupExit

DeleteSteps ==
    \/ DeleteWriteChunkIndex
    \/ DeleteWriteBackupIndex
    \/ DeleteCheckPersist
    \/ DeleteBackupFile
    \/ \E h \in Pending : DeleteChunk(h)
    \/ DeleteJoin

PruneSteps ==
    \/ \E p \in Pending : PruneDelete(p)
    \/ PruneJoin

RestoreSteps ==
    \/ \E f \in Pending : RestoreFile(f)
    \/ RestoreJoin

\* The life of a repository: backups, deletes, prunes and restores.  The
\* journal thread of a backup is not scheduled here.
Next ==
    \/ \E cs \in ChunkSizes, m \in Messages, hit \in BOOLEAN : StartBackup(cs, m, hit)
    \/ BackupSteps
    \/ \E f \in DOMAIN tasks : WriteChunkErr(f)
    \/ \E h \in BackupHashes, hit \in BOOLEAN : StartDelete(h, hit)
    \/ DeleteSteps
    \/ \E hit \in BOOLEAN : StartPrune(hit)
    \/ PruneSteps
    \/ \E h \in BackupHashes : StartRestore(h)
    \/ RestoreSteps
    \/ Crash

Spec == Init /\ [][Next]_vars

\* Backups alone, with the journal thread, store failures and kills.
NextBackup ==
    \/ \E cs \in ChunkSizes, m \in Messages, hit \in BOOLEAN : StartBackup(cs, m, hit)
    \/ BackupSteps
    \/ \E f \in DOMAIN tasks : WriteChunkErr(f)
    \/ WatcherTick
    \/ WatcherWrite
    \/ Crash

SpecBackup == Init /\ [][NextBackup]_vars

\* Prune alone, on a store that holds any set of blobs under key/chunks/ and
\* key/indexes/ and any chunk index: chunk blobs, a blob directly under
\* key/chunks/, a journal; index keys that are hashes or not.
StrayPath == <<KEY, <<"chunks">>, <<"x">>>>
ListedPaths ==
    {ChunkPath(KEY, Sha256(<<1>>)), ChunkPath(KEY, Sha256(<<2>>)), StrayPath,
     PendingBackupPath(KEY, BackupHash("m", AUTHOR, 1))}
IndexKeys == {Sha256(<<1>>), Sha256(<<2>>), <<"chunks", "x">>}

PruneStore(paths, keys, password) ==
    [p \in paths \cup {ChunkIndexPath(KEY)} |->
        IF p = ChunkIndexPath(KEY)
        THEN ChunkIndexBytes([k \in keys |-> 1], DELETE_COMPRESS_LEVEL, password)
        ELSE EncodeChunk(<<1>>, DELETE_COMPRESS_LEVEL, password)]

InitPrune ==
    /\ pw \in PasswordOpts
    /\ \E paths \in SUBSET ListedPaths, keys \in SUBSET IndexKeys :
          store = PruneStore(paths, keys, pw)
    /\ clock = 1
    /\ source \in SourceTrees
    /\ target = EmptyMap
    /\ run = Idle
    /\ tasks = EmptyMap
    /\ watcher = NoWatcher
    /\ hits = 0
    /\ nother = 0
    /\ last = NoCommand
    /\ prev = NoCommand
    /\ clean = TRUE

NextPrune ==
    \/ \E hit \in BOOLEAN : StartPrune(hit)
    \/ PruneSteps
    \/ Crash

SpecPrune == InitPrune /\ [][NextPrune]_vars

\* -------------------------------------------------------------- properties
\* C1: a backup killed before all of its per-file tasks completed leaves the
\* blob key/indexes/chunks as it was before the backup started and leaves no
\* manifest key/backups/<hash>; it removes no blob, and the only blobs it
\* added or rewrote are chunk blobs and its own pending journal.
C1_InterruptedBackup ==
    (last.kind = "backup" /\ last.outcome = "crashed" /\ last.tasks_unfinished > 0) =>
        LET before == last.store_before
        IN  /\ read_file(store, ChunkIndexPath(KEY)) = read_file(before, ChunkIndexPath(KEY))
            /\ BackupFilePath(KEY, last.hash) \notin DOMAIN store
            /\ DOMAIN before \subseteq DOMAIN store
            /\ \A p \in DOMAIN store :
                  (p \notin DOMAIN before \/ store[p] # before[p]) =>
                      \/ StartsWith(p, ChunksFolder(KEY))
                      \/ p = PendingBackupPath(KEY, last.hash)

\* A second backup, killed with a task unfinished, after it uploaded a chunk
\* and its journal was written.
C1_Witness ==
    /\ last.kind = "backup" /\ last.outcome = "crashed" /\ last.tasks_unfinished > 0
    /\ ChunkIndexPath(KEY) \in DOMAIN last.store_before
    /\ \E p \in DOMAIN store \ DOMAIN last.store_before : StartsWith(p, ChunksFolder(KEY))
    /\ PendingBackupPath(KEY, last.hash) \in DOMAIN store

\* The stored chunk index, the stored summaries and a stored manifest, decoded.
StoredIndex(st) == load_chunk_indexes(st, KEY, pw).val.indexes
StoredSummaries(st) == list_backup_summaries(st, KEY, pw).val
StoredManifest(st, backup_hash) == load_backup(st, KEY, pw, backup_hash).val

\* How many times a hash occurs in a manifest.
Occurrences(chunk_hash, manifest) ==
    LET hashes == TreeChunks(manifest.tree)
    IN  Cardinality({i \in DOMAIN hashes : hashes[i] = chunk_hash})

\* The hashes that the backups listed in a store's summaries reference.
RetainedHashes(st) ==
    UNION {Range(TreeChunks(StoredManifest(st, StoredSummaries(st)[i].hash).tree)) :
              i \in DOMAIN StoredSummaries(st)}

\* C2: after a delete of backup B that ended without error, in a history in
\* which every command succeeded: a hash referenced only by B has no blob and
\* no index entry; a hash also referenced by a retained backup keeps its blob
\* and its refcount is lower by exactly its number of occurrences in B.
C2_DeleteReleasesReferences ==
    (last.kind = "delete" /\ last.outcome = "ok" /\ clean) =>
        LET before == last.store_before
            B == StoredManifest(before, last.hash)
        IN  \A h \in Range(TreeChunks(B.tree)) :
                IF h \in RetainedHashes(store)
                THEN /\ ChunkPath(KEY, h) \in DOMAIN store
                     /\ h \in DOMAIN StoredIndex(store)
                     /\ StoredIndex(store)[h] = StoredIndex(before)[h] - Occurrences(h, B)
                ELSE /\ ChunkPath(KEY, h) \notin DOMAIN store
                     /\ h \notin DOMAIN StoredIndex(store)

\* A successful delete of a backup with a hash of its own and a hash it shares
\* with the retained backup and references twice.
C2_Witness ==
    /\ last.kind = "delete" /\ last.outcome = "ok" /\ clean
    /\ LET B == StoredManifest(last.store_before, last.hash)
       IN  /\ \E h \in Range(TreeChunks(B.tree)) : h \notin RetainedHashes(store)
           /\ \E h \in Range(TreeChunks(B.tree)) :
                 /\ h \in RetainedHashes(store)
                 /\ Occurrences(h, B) = 2
                 /\ StoredIndex(store)[h] = 1

\* C4: every chunk index in the store has only entries with refcount >= 1,
\* and the index a delete writes back has lost exactly the entries whose hash
\* the decrement loop put in chunks_to_delete.
C4_RefcountsPositive ==
    /\ load_chunk_indexes(store, KEY, pw).ok
    /\ \A h \in DOMAIN StoredIndex(store) : StoredIndex(store)[h] >= 1
    /\ run.kind = "delete" =>
          LET loaded == StoredIndex(run.store_before)
          IN  /\ DOMAIN run.chunk_indexes \subseteq DOMAIN loaded
              /\ DOMAIN loaded \ DOMAIN run.chunk_indexes = Range(run.chunks_to_delete)
              /\ \A h \in DOMAIN run.chunk_indexes : run.chunk_indexes[h] >= 1

\* A delete wrote back an index that lost an entry and kept another.
C4_Witness ==
    /\ run.kind = "delete"
    /\ run.index_result = "ok"
    /\ run.chunks_to_delete # <<>>
    /\ run.chunk_indexes # EmptyMap
    /\ StoredIndex(store) = run.chunk_indexes

\* C6: a restore that ended without error into an empty target, in a history
\* in which every command succeeded, leaves in the target exactly the files of
\* the source tree, each with the source's content and permission bits.
C6_RestoreRoundTrip ==
    (last.kind = "restore" /\ last.outcome = "ok" /\ clean
        /\ last.target_before = EmptyMap) =>
        /\ DOMAIN target = DOMAIN source
        /\ \A f \in DOMAIN source :
              /\ target[f].content = source[f].content
              /\ target[f].mode = source[f].mode % PermMask

\* A successful restore into an empty target of a tree with two files, one of
\* two chunks.
C6_Witness ==
    /\ last.kind = "restore" /\ last.outcome = "ok" /\ clean
    /\ last.target_before = EmptyMap
    /\ last.restored_files = 2
    /\ \E f \in DOMAIN target : target[f].content = <<1, 2>>

\* C3: prune issues no delete for a path under key/chunks/ whose last two
\* segments, joined, are a key of the chunk index that prune loaded.
C3_PruneSparesIndexed ==
    LET r == IF run.kind = "prune" THEN run
             ELSE IF last.kind = "prune" /\ last.outcome # "crashed" THEN last
             ELSE [issued |-> {}, chunk_indexes |-> EmptyMap]
    IN  \A p \in r.issued :
           ~ /\ StartsWith(p, ChunksFolder(KEY))
             /\ Len(p) > Len(ChunksFolder(KEY))
             /\ (p[Len(p) - 1] \o p[Len(p)]) \in DOMAIN r.chunk_indexes

\* A prune that finished its deletes: it deleted a chunk blob, and spared a
\* chunk blob and the blob directly under key/chunks/ because the index has
\* their keys.
C3_Witness ==
    /\ run.kind = "prune"
    /\ run.pending = {}
    /\ \E p \in run.issued : StartsWith(p, ChunksFolder(KEY))
    /\ StrayPath \in DOMAIN run.store_before /\ StrayPath \notin run.issued
    /\ \E h \in DOMAIN run.chunk_indexes :
          ChunkPath(KEY, h) \in DOMAIN run.store_before /\ ChunkPath(KEY, h) \notin run.issued

\* The total size of a tree's files.
RECURSIVE SizeOfFiles(_, _)
SizeOfFiles(tree, files) ==
    IF files = <<>> THEN 0
    ELSE Len(tree[Head(files)].content) + SizeOfFiles(tree, Tail(files))
TotalSize(tree) == SizeOfFiles(tree, SeqOfSet(DOMAIN tree))

\* C5: a backup that succeeds right after a successful backup of the same
\* source with the same chunk_size has written-bytes 0 and deduplicated-bytes
\* equal to the total size of the source.
C5_SecondBackupUploadsNothing ==
    (/\ last.kind = "backup" /\ last.outcome = "ok"
     /\ prev.kind = "backup" /\ prev.outcome = "ok"
     /\ prev.chunk_size = last.chunk_size) =>
        /\ last.written_bytes = 0
        /\ last.deduplicated_bytes = TotalSize(source)

\* The second of two successful backups of the two-file tree with chunk_size 1.
C5_Witness ==
    /\ last.kind = "backup" /\ last.outcome = "ok"
    /\ prev.kind = "backup" /\ prev.outcome = "ok"
    /\ prev.chunk_size = last.chunk_size
    /\ last.chunk_size = 1
    /\ source = TreeTwo
    /\ last.deduplicated_bytes = 3

\* The outcomes of the attempts made for one chunk, as the retry loop allows
\* them: failures only, at most three, then possibly one success.
TriesAllowed(tries) ==
    /\ Len(tries) <= RETRY_ATTEMPTS
    /\ \A i \in DOMAIN tries : tries[i] = "ok" => i = Len(tries)

\* The pauses the loop took after the failures among these attempts.
PausesAfter(tries) ==
    LET failures == Cardinality({i \in DOMAIN tries : tries[i] = "err"})
    IN  [i \in 1..(IF failures < 3 THEN failures ELSE 2) |-> 100 * i]

\* In every state: the attempts and pauses of every task are as the retry
\* loop allows, and no final write was attempted twice.
C9_RetryInv ==
    /\ \A f \in DOMAIN tasks :
          /\ TriesAllowed(tasks[f].tries)
          /\ tasks[f].slept = PausesAfter(tasks[f].tries)
          /\ tasks[f].pc = "write" => \A i \in DOMAIN tasks[f].tries : tasks[f].tries[i] = "err"
          /\ tasks[f].pc = "failed" <=> tasks[f].tries = <<"err", "err", "err">>
    /\ run.kind = "backup" =>
          /\ run.attempts.index <= 1
          /\ run.attempts.manifest <= 1
          /\ run.attempts.summaries <= 1
\* In every step: a task that gave up stays as it is.
C9_FailedTaskStops ==
    \A f \in DOMAIN tasks :
        (tasks[f].pc = "failed" /\ f \in DOMAIN tasks') => tasks'[f] = tasks[f]

\* C9: a chunk that is not a dedup hit is written at most 3 times, never
\* again after a success, with a pause of 100 ms after the first failure and
\* of 200 ms after the second; a task whose chunk failed three times has
\* returned an error and does nothing more; the chunk index, the manifest and
\* the summaries are each written at most once.
C9_Retry == [](C9_RetryInv) /\ [][C9_FailedTaskStops]_vars

\* A task gave up after three failures while its sibling uploaded a chunk at
\* the third attempt.
C9_Witness ==
    /\ run.kind = "backup"
    /\ \E f \in DOMAIN tasks :
          tasks[f].pc = "failed" /\ tasks[f].slept = <<100, 200>>
    /\ \E f \in DOMAIN tasks : tasks[f].tries = <<"err", "err", "ok">>

\* C10: a backup some of whose per-file tasks failed ends in error, after
\* every task has finished, with one error entry per failed task, without
\* having attempted to write the chunk index, the manifest or the summaries,
\* which are in the store as they were before the backup.
C10_FailureAfterAllTasks ==
    (last.kind = "backup" /\ last.outcome # "crashed" /\ last.tasks_failed > 0) =>
        /\ last.outcome = "error"
        /\ last.tasks_unfinished = 0
        /\ Len(last.failed_files) = last.tasks_failed
        /\ last.attempts = [index |-> 0, manifest |-> 0, summaries |-> 0]
        /\ \A p \in {ChunkIndexPath(KEY), BackupIndexPath(KEY),
                     BackupFilePath(KEY, last.hash)} :
              read_file(store, p) = read_file(last.store_before, p)

\* A failed backup: one task failed, the other finished after an upload.
C10_Witness ==
    /\ last.kind = "backup" /\ last.outcome = "error"
    /\ last.tasks_failed = 1
    /\ Len(last.failed_files) = 1
    /\ last.written_bytes > 0

\* A blob that is a GIB1 frame around a zstd frame.
FramedAndCompressed(blob) ==
    /\ Len(blob) = 3
    /\ blob[1] = "GIB1"
    /\ Len(blob[3]) = 2
    /\ blob[3][1] = "zstd"

\* C7: while a backup with a password runs, every blob it has written that is
\* in the store (chunk, chunk index, manifest, summaries, pending journal) is
\* compressed and GIB1-framed.
C7_NoPlaintextBlob ==
    (run.kind = "backup" /\ run.password # NoPassword) =>
        \A p \in run.written_paths \cap DOMAIN store : FramedAndCompressed(store[p])

\* Is s the sequence t cut after some element?
IsPrefix(s, t) == Len(s) <= Len(t) /\ s = SubSeq(t, 1, Len(s))

\* What a running backup has stored, class by class, read back by the
\* class's reader.
C8_ChunkDecodes ==
    \A f \in DOMAIN tasks :
        tasks[f].pc = "record" =>
            WriteChunks(store, run.password, <<Sha256(CurrentChunk(f))>>, <<>>)
                = [ok |-> TRUE, content |-> CurrentChunk(f), err |-> ""]
C8_IndexDecodes ==
    (run.pc = "persist" /\ run.index_result = "ok") =>
        load_chunk_indexes(store, KEY, run.password)
            = Ok([indexes |-> run.chunk_indexes, upgraded |-> FALSE])
C8_ManifestDecodes ==
    (run.pc = "persist" /\ run.manifest_result = "ok") =>
        load_backup(store, KEY, run.password, run.new_backup.hash) = Ok(run.new_backup)
C8_SummariesDecode ==
    run.pc = "cleanup" =>
        LET listed == list_backup_summaries(store, KEY, run.password)
        IN  /\ listed.ok
            /\ listed.val # <<>>
            /\ Head(listed.val) = BackupSummary(run.new_backup, run.written_bytes)
C8_JournalDecodes ==
    PendingBackupPath(KEY, run.new_backup.hash) \in DOMAIN store =>
        LET decoded == decode_pending_backup(store,
                           PendingBackupPath(KEY, run.new_backup.hash), run.password)
        IN  /\ decoded.ok
            /\ decoded.val.message = run.pending_backup.message
            /\ decoded.val.chunk_size = run.pending_backup.chunk_size
            /\ IsPrefix(decoded.val.processed_chunks, run.pending_backup.processed_chunks)

\* C8: what a running backup has stored, each class's reader decodes back to
\* the value the writer was given: a chunk to its bytes, the chunk index to
\* the in-memory index, the manifest to the backup, the summaries to a list
\* headed by this backup's summary, the pending journal to the journal as it
\* was at one of the ticks.
C8_ReadersInvertWriters ==
    run.kind = "backup" =>
        /\ C8_ChunkDecodes
        /\ C8_IndexDecodes
        /\ C8_ManifestDecodes
        /\ C8_SummariesDecode
        /\ C8_JournalDecodes

\* The final steps of a backup whose tasks all succeeded, each after the one
\* before it: stop flag, chunk index, summaries, journal delete.
C11_StopFirst ==
    (run.attempts.index > 0 \/ run.attempts.manifest > 0) => run.stop
C11_SummariesAfterBoth ==
    run.attempts.summaries > 0 =>
        (run.index_result = "ok" /\ run.manifest_result = "ok")
C11_JournalDeleteLast ==
    run.pc = "exit" => BackupIndexPath(KEY) \in run.written_paths
C11_ManifestAfterIndex ==
    run.attempts.manifest > 0 => run.index_result = "ok"

\* C11: in a backup whose per-file tasks all succeeded, the stop flag is set
\* before any final write, the manifest write is attempted only after the
\* chunk index write has completed, the summaries are written only after both,
\* and the pending journal is deleted only after the summaries were written.
C11_FinalStepsInOrder ==
    (run.kind = "backup" /\ run.pc # "join") =>
        /\ C11_StopFirst
        /\ C11_ManifestAfterIndex
        /\ C11_SummariesAfterBoth
        /\ C11_JournalDeleteLast

\* The same order without the index-before-manifest part.
C11_OrderOfTheRest ==
    (run.kind = "backup" /\ run.pc # "join") =>
        /\ C11_StopFirst
        /\ C11_SummariesAfterBoth
        /\ C11_JournalDeleteLast

\* The errors of the final steps of backup(); each is reported together with
\* the "gib backup --continue <short_hash>" instruction.
FinalStepErrors ==
    {"Failed to write chunk indexes", "Failed to write backup file",
     "Failed to save backup summary"}

\* C12: a backup that has ended with the failure of the chunk index write, of
\* the manifest write or of the summaries write has left its pending journal
\* in the store.
C12_JournalLeftInPlace ==
    (run.kind = "idle" /\ last.kind = "backup" /\ last.outcome = "error"
        /\ last.error \in FinalStepErrors) =>
        PendingBackupPath(KEY, last.hash) \in DOMAIN store

\* No final step of a backup removes a journal that is in the store.
C12_StepKeepsJournal ==
    (run.kind = "backup" /\ run.pc \in {"persist", "summary"}
        /\ PendingBackupPath(KEY, run.new_backup.hash) \in DOMAIN store) =>
        PendingBackupPath(KEY, run.new_backup.hash) \in DOMAIN store'
C12_FinalStepsKeepJournal == [][C12_StepKeepsJournal]_vars

\* C13: after a backup has completed cleanly, in a behaviour where the store
\* never failed an operation, its pending journal is not in the store.
C13_NoJournalAfterCleanBackup ==
    (run.kind = "idle" /\ last.kind = "backup" /\ last.outcome = "ok" /\ hits = 0) =>
        PendingBackupPath(KEY, last.hash) \notin DOMAIN store

\* The journal thread leaves the journal alone once it has seen the stop flag.
C13_StepAfterStopSeen ==
    watcher.pc = "exit" => (store' = store \/ run.kind # "backup" \/
        (PendingBackupPath(KEY, run.new_backup.hash) \in DOMAIN store'
            => PendingBackupPath(KEY, run.new_backup.hash) \in DOMAIN store))
C13_NoWriteAfterStopSeen == [][C13_StepAfterStopSeen]_vars

\* The paths a step removes from the store.
Removed == DOMAIN store \ DOMAIN store'
IsChunkPath(path) == Len(path) = 4 /\ path[2] = <<"chunks">>

\* A step of delete removes the manifest only with both writes done, and a
\* chunk only with the manifest gone.
C14_StepInOrder ==
    run.kind = "delete" =>
        /\ BackupFilePath(KEY, run.hash_of) \in Removed =>
              (run.index_result = "ok" /\ run.summaries_result = "ok")
        /\ \A path \in Removed :
              IsChunkPath(path) => BackupFilePath(KEY, run.hash_of) \notin DOMAIN store

\* A delete that ended on a failed write has removed nothing.
C14_FailedWriteDeletesNothing ==
    (run.kind = "idle" /\ last.kind = "delete" /\ last.outcome = "error"
        /\ last.error \in {"Failed to write chunk indexes", "Failed to write backup index"}) =>
        DOMAIN last.store_before \subseteq DOMAIN store

\* C14: delete removes the manifest blob only after the chunk index and the
\* summaries were both written successfully, removes no chunk blob while the
\* manifest blob is still there, and removes neither when one of the two
\* writes failed.
C14_DeleteOrder == [][C14_StepInOrder]_vars /\ [](C14_FailedWriteDeletesNothing)

\* A delete has ended cleanly after deleting the manifest and a chunk.
C14_Witness ==
    /\ run.kind = "idle"
    /\ last.kind = "delete"
    /\ last.outcome = "ok"
    /\ last.chunks_to_delete # <<>>
    /\ BackupFilePath(KEY, last.hash) \notin DOMAIN store
    /\ ChunkPath(KEY, Head(last.chunks_to_delete)) \notin DOMAIN store

\* prune(): the count in "Deleted {} chunks" and in deleted_chunks.
DeletedCount(summary) == Cardinality(summary.chunks_to_prune)

\* Every collected path was handed to delete_file when prune ended.
C15_AllAttempted ==
    (run.kind = "idle" /\ last.kind = "prune" /\ last.outcome = "ok") =>
        last.issued = last.chunks_to_prune

\* C15: a prune that has ended reporting success has attempted the delete of
\* every collected path, and the count it reports covers only paths that are
\* gone from the store.
C15_PruneReportsFailures ==
    (run.kind = "idle" /\ last.kind = "prune" /\ last.outcome = "ok") =>
        /\ last.issued = last.chunks_to_prune
        /\ DeletedCount(last) =
              Cardinality({path \in last.chunks_to_prune : path \notin DOMAIN store})

\* ------------------------------------------------- backup, kill, prune
\* Backups with the journal thread, store failures and kills, and prunes of
\* what they leave behind.
NextRecover ==
    \/ \E cs \in ChunkSizes, m \in Messages, hit \in BOOLEAN : StartBackup(cs, m, hit)
    \/ BackupSteps
    \/ \E f \in DOMAIN tasks : WriteChunkErr(f)
    \/ WatcherTick
    \/ WatcherWrite
    \/ Crash
    \/ \E hit \in BOOLEAN : StartPrune(hit)
    \/ PruneSteps

SpecRecover == Init /\ [][NextRecover]_vars

IsPendingPath(path) ==
    /\ StartsWith(path, IndexesFolder(KEY))
    /\ Len(path) > Len(IndexesFolder(KEY))
    /\ StartsWith(path[Len(path)], <<"pending_">>)

\* The chunk blobs of a store whose hash its chunk index does not have.
OrphanChunks(st) ==
    {path \in DOMAIN st : IsChunkPath(path) /\ (path[3] \o path[4]) \notin DOMAIN StoredIndex(st)}

\* What an interrupted backup left: an orphaned chunk and a journal.
LeftByInterruptedBackup(st) ==
    /\ OrphanChunks(st) # {}
    /\ \E path \in DOMAIN st : IsPendingPath(path)

SameBlob(st1, st2, path) ==
    /\ path \in DOMAIN st1 <=> path \in DOMAIN st2
    /\ path \in DOMAIN st1 => st1[path] = st2[path]

\* C16: a prune that ran on what a killed backup left (an orphaned chunk, a
\* pending journal) and whose deletes all succeeded leaves no chunk blob whose
\* hash the chunk index lacks and no pending journal, and leaves the chunk
\* index blob and the summaries blob as they were.
C16_PruneCleansInterruptedBackup ==
    (run.kind = "idle" /\ last.kind = "prune" /\ last.outcome = "ok"
        /\ prev.kind = "backup" /\ prev.outcome = "crashed"
        /\ LeftByInterruptedBackup(last.store_before)
        /\ \A path \in last.chunks_to_prune : path \notin DOMAIN store) =>
        /\ OrphanChunks(store) = {}
        /\ \A path \in DOMAIN store : ~IsPendingPath(path)
        /\ SameBlob(store, last.store_before, ChunkIndexPath(KEY))
        /\ SameBlob(store, last.store_before, BackupIndexPath(KEY))

\* Such a prune has ended, on a store that had an index and summaries of an
\* earlier backup, and a chunk blob of that backup is still there.
C16_Witness ==
    /\ run.kind = "idle" /\ last.kind = "prune" /\ last.outcome = "ok"
    /\ prev.kind = "backup" /\ prev.outcome = "crashed"
    /\ LeftByInterruptedBackup(last.store_before)
    /\ \A path \in last.chunks_to_prune : path \notin DOMAIN store
    /\ ChunkIndexPath(KEY) \in DOMAIN store
    /\ BackupIndexPath(KEY) \in DOMAIN store
    /\ \E path \in DOMAIN store : IsChunkPath(path)

\* ------------------------------------------------ backups in one second
\* Backups of which one may start within the second the one before it
\* started in.
NextSameSecond ==
    \/ \E cs \in ChunkSizes, m \in Messages, hit \in BOOLEAN,
          now \in {clock - 1, clock} \cap (1..MaxBackups) : StartBackupAt(cs, m, hit, now)
    \/ BackupSteps
    \/ \E f \in DOMAIN tasks : WriteChunkErr(f)
    \/ Crash

SpecSameSecond == Init /\ [][NextSameSecond]_vars

IsManifestPath(path) == StartsWith(path, BackupsFolder(KEY)) /\ Len(path) > Len(BackupsFolder(KEY))

\* C17: a backup run has a hash no manifest in the store has, and writes to no
\* manifest path that was in the store when it started.
C17_ManifestNeverRewritten ==
    run.kind = "backup" =>
        /\ BackupFilePath(KEY, run.new_backup.hash) \notin DOMAIN run.store_before
        /\ \A path \in run.written_paths :
              IsManifestPath(path) => path \notin DOMAIN run.store_before

\* A backup that has ended cleanly has stored the list it found with its own
\* summary in front.
C18_BackupPrepends ==
    (run.kind = "idle" /\ last.kind = "backup" /\ last.outcome = "ok") =>
        LET new == StoredSummaries(store)
            old == StoredSummaries(last.store_before)
        IN  /\ new # <<>>
            /\ Head(new).hash = last.hash
            /\ Head(new).size = last.written_bytes
            /\ Tail(new) = old

\* A delete that has ended cleanly has stored the list it found without the
\* entries of the deleted hash, the others in their order.
C18_DeleteFilters ==
    (run.kind = "idle" /\ last.kind = "delete" /\ last.outcome = "ok") =>
        LET new == StoredSummaries(store)
            old == StoredSummaries(last.store_before)
            kept == {i \in DOMAIN old : old[i].hash # last.hash}
        IN  /\ Len(new) = Cardinality(kept)
            /\ \A i \in kept :
                  new[Cardinality({j \in kept : j <= i})] = old[i]

OtherPassword == "q"
CodecValues == {EmptyMap, <<>>, [h \in {Sha256(<<1>>)} |-> 1]}
CodecPlain == {to_vec_named(v) : v \in CodecValues}
                  \cup {compress_bytes(to_vec_named(v), DEFAULT_COMPRESS) : v \in CodecValues}
CodecBlobs ==
    {EmptyBytes, <<MAGIC>>} \cup CodecPlain
        \cup {encrypt_bytes(data, password) :
                  data \in CodecPlain, password \in Passwords \cup {OtherPassword}}

\* The blob classes read with read_file_maybe_decrypt, each with its path and
\* its encrypted-without-password error.
ReadClasses ==
    {[path |-> ChunkPath(KEY, Sha256(<<1>>)),
      error |-> "Chunk is encrypted but no password provided"],
     [path |-> BackupFilePath(KEY, BackupHash("m", AUTHOR, 1)),
      error |-> "Backup is encrypted but no password provided"],
     [path |-> PendingBackupPath(KEY, BackupHash("m", AUTHOR, 1)),
      error |-> "Pending backup is encrypted but no password provided"]}
CodecPaths == {c.path : c \in ReadClasses} \cup {ChunkIndexPath(KEY), BackupIndexPath(KEY)}

InitCodec ==
    /\ pw \in PasswordOpts
    /\ \/ store = EmptyMap
       \/ \E path \in CodecPaths, blob \in CodecBlobs : store = [p \in {path} |-> blob]
    /\ clock = 1
    /\ source \in {TreeTwo}
    /\ target = EmptyMap
    /\ run = Idle
    /\ tasks = EmptyMap
    /\ watcher = NoWatcher
    /\ hits = 0
    /\ nother = 0
    /\ last = NoCommand
    /\ prev = NoCommand
    /\ clean = TRUE

\* One reader is applied to the store; last holds what it returned.
ReadBlob(class) ==
    /\ last' = [kind |-> "read", path |-> class.path, error |-> class.error,
                result |-> read_file_maybe_decrypt(store, class.path, pw, class.error)]
    /\ UNCHANGED <<store, pw, clock, source, target, run, tasks, watcher, hits,
                   nother, prev, clean>>

LoadChunkIndexes ==
    /\ last' = [kind |-> "load_chunk_indexes", path |-> ChunkIndexPath(KEY),
                error |-> "Chunk indexes are encrypted but no password provided",
                result |-> load_chunk_indexes(store, KEY, pw)]
    /\ UNCHANGED <<store, pw, clock, source, target, run, tasks, watcher, hits,
                   nother, prev, clean>>

ListBackupSummaries ==
    /\ last' = [kind |-> "list_backup_summaries", path |-> BackupIndexPath(KEY),
                error |-> "Backup summaries are encrypted but no password provided",
                result |-> list_backup_summaries(store, KEY, pw)]
    /\ UNCHANGED <<store, pw, clock, source, target, run, tasks, watcher, hits,
                   nother, prev, clean>>

NextCodec ==
    \/ \E class \in ReadClasses : ReadBlob(class)
    \/ LoadChunkIndexes
    \/ ListBackupSummaries

SpecCodec == InitCodec /\ [][NextCodec]_vars

\* The blob the last reader was applied to.
BlobRead == IF last.path \in DOMAIN store THEN store[last.path] ELSE EmptyBytes
Framed(blob) == is_encrypted(blob)
Returned(bytes, was_encrypted) == Ok([bytes |-> bytes, was_encrypted |-> was_encrypted])

\* The three cases of read_file_maybe_decrypt that do not decrypt.
C19_UnframedWithPassword ==
    (last.kind = "read" /\ BlobRead # EmptyBytes /\ pw # NoPassword /\ ~Framed(BlobRead)) =>
        last.result = Returned(BlobRead, FALSE)
C19_FramedWithoutPassword ==
    (last.kind \in {"read", "load_chunk_indexes", "list_backup_summaries"}
        /\ pw = NoPassword /\ Framed(BlobRead)) =>
        last.result = Err(last.error)
C19_UnframedWithoutPassword ==
    (last.kind = "read" /\ BlobRead # EmptyBytes /\ pw = NoPassword /\ ~Framed(BlobRead)) =>
        last.result = Returned(BlobRead, FALSE)
\* load_chunk_indexes on an unframed index with a password: the index is
\* loaded and the upgrade flag is set.
C19_UpgradeFlag ==
    (last.kind = "load_chunk_indexes" /\ pw # NoPassword) =>
        \A v \in CodecValues :
            BlobRead = compress_bytes(to_vec_named(v), DEFAULT_COMPRESS) =>
                last.result = Ok([indexes |-> v, upgraded |-> TRUE])

\* A framed blob read with a password, whatever the password and the frame.
C19_FramedWithPassword ==
    (last.kind = "read" /\ pw # NoPassword /\ Framed(BlobRead)) =>
        /\ last.result.ok
        /\ last.result.val.was_encrypted

\* A framed blob read with the password it was encrypted with, and one read
\* with another password or cut short.
C19_FramedWithItsPassword ==
    (last.kind = "read" /\ pw # NoPassword) =>
        \A data \in CodecPlain :
            BlobRead = encrypt_bytes(data, pw) => last.result = Returned(data, TRUE)
C19_FramedWithWrongPassword ==
    (last.kind = "read" /\ pw # NoPassword /\ Framed(BlobRead)
        /\ ~ \E data \in CodecPlain : BlobRead = encrypt_bytes(data, pw)) =>
        /\ ~last.result.ok
        /\ last.result.err \in {"Blob too small", "Invalid password or corrupted data"}

\* C19 as stated: a non-empty blob read with a password and GIB1-framed comes
\* back decrypted with was_encrypted = true; with a password and unframed it
\* comes back unchanged with was_encrypted = false (and the index load sets
\* the upgrade flag); without a password and framed the read fails with the
\* class's encrypted-but-no-password error; without a password and unframed
\* it comes back unchanged.
C19_ReadCasesAsStated ==
    /\ C19_FramedWithPassword
    /\ C19_UnframedWithPassword
    /\ C19_UpgradeFlag
    /\ C19_FramedWithoutPassword
    /\ C19_UnframedWithoutPassword

\* C19, amended: the framed blob comes back decrypted when the password is the
\* one it was encrypted with and the frame is whole; with another password or
\* a frame cut short the read fails with the decryption error; the other
\* three cases are as stated.
C19_ReadCases ==
    /\ C19_FramedWithItsPassword
    /\ C19_FramedWithWrongPassword
    /\ C19_UnframedWithPassword
    /\ C19_UpgradeFlag
    /\ C19_FramedWithoutPassword
    /\ C19_UnframedWithoutPassword

\* A blob encrypted with another password was read with a password, and the
\* read failed.
C19_Witness ==
    /\ last.kind = "read"
    /\ pw # NoPassword
    /\ \E data \in CodecPlain : BlobRead = encrypt_bytes(data, OtherPassword)
    /\ ~last.result.ok

\* C20: a reader applied to a blob that is absent or has zero length returns
\* empty bytes (read_file_maybe_decrypt), an empty index (load_chunk_indexes)
\* or an empty list (the summaries loader), and no error, with and without a
\* password.
C20_AbsentOrEmptyReadsEmpty ==
    (last.kind \in {"read", "load_chunk_indexes", "list_backup_summaries"}
        /\ BlobRead = EmptyBytes) =>
        /\ last.kind = "read" => last.result = Returned(EmptyBytes, FALSE)
        /\ last.kind = "load_chunk_indexes" =>
              (last.result.ok /\ last.result.val.indexes = EmptyMap)
        /\ last.kind = "list_backup_summaries" => last.result = Ok(<<>>)

\* The chunk index was loaded with a password from a store that has no such
\* blob.
C20_Witness ==
    /\ last.kind = "load_chunk_indexes"
    /\ last.path \notin DOMAIN store
    /\ pw # NoPassword
    /\ last.result.ok

\* ---------------------------------------------------------- restore alone
\* Backups that nothing disturbs, and restores with any password, selection
\* and prune-local flag, into a target that may hold files and directories of
\* its own; the source may be a tree with directories.
SrcA == <<"src", "a.txt">>
SrcB == <<"src", "b.txt">>
DocC == <<"doc", "c.md">>
TreeNested == [p \in {SrcA, SrcB, DocC} |->
                 IF p = SrcA THEN [content |-> <<1, 2>>, mode |-> S_IFREG + Mode644]
                 ELSE IF p = SrcB THEN [content |-> <<1>>, mode |-> S_IFREG + Mode644]
                 ELSE [content |-> <<2>>, mode |-> S_IFREG + Mode755]]
FileC == <<"c">>
DirD == <<"d">>
DirE == <<"e">>
FileEC == <<"e", "c">>
\* The target of scenario S5: a file and an empty directory of its own.
TargetS5 == [p \in {FileC, DirD} |->
               IF p = FileC THEN [content |-> <<2>>, mode |-> Mode644] ELSE NewDir]
\* A target that holds a's content already, an empty directory, and a
\* directory whose only file is not in any backup.
TargetDeep == [p \in {FileA, DirD, DirE, FileEC} |->
                 IF p = FileA THEN [content |-> <<1, 2>>, mode |-> Mode644]
                 ELSE IF p = FileEC THEN [content |-> <<2>>, mode |-> Mode644]
                 ELSE NewDir]
RestoreTargets == {EmptyMap, TargetS5, TargetDeep}
OnlyRequests ==
    {OnlyNone, OnlyPaths(<<>>), OnlyPaths(<< <<"src">> >>),
     OnlyPaths(<< SrcA, <<"doc">> >>), OnlyPaths(<< <<"lib">> >>), OnlyPaths(<< FileA >>)}

\* The hashes of the chunks of the source trees.
ChunkHashes == {Sha256(<<1>>), Sha256(<<2>>), Sha256(<<1, 2>>)}

InitRestore ==
    /\ store = EmptyMap
    /\ pw \in PasswordOpts
    /\ clock = 1
    /\ source \in {TreeNested, TreeTwo}
    /\ target \in RestoreTargets
    /\ run = Idle
    /\ tasks = EmptyMap
    /\ watcher = NoWatcher
    /\ hits = 0
    /\ nother = 0
    /\ last = NoCommand
    /\ prev = NoCommand
    /\ clean = TRUE

NextRestore ==
    \/ \E cs \in ChunkSizes, m \in Messages : StartBackup(cs, m, FALSE)
    \/ BackupSteps
    \/ \E h \in BackupHashes, password \in PasswordOpts \cup {OtherPassword},
          only_request \in OnlyRequests, prune_local \in BOOLEAN :
          StartRestoreWith(h, password, only_request, prune_local)
    \/ RestoreSteps
    \/ \E f \in Pending, h \in ChunkHashes : RestoreFileUnreadable(f, h)

SpecRestore == InitRestore /\ [][NextRestore]_vars

\* The manifest keys that equal one of the paths or start with one of them
\* followed by '/'.
SelectedBy(backup_tree, only_paths) ==
    {k \in DOMAIN backup_tree :
        \E i \in DOMAIN only_paths :
            \/ k = only_paths[i]
            \/ Len(k) > Len(only_paths[i]) /\ StartsWith(k, only_paths[i])}
EachPathMatches(backup_tree, only_paths) ==
    /\ only_paths # <<>>
    /\ \A i \in DOMAIN only_paths : SelectedBy(backup_tree, << only_paths[i] >>) # {}
FilesOf(dir) == {p \in DOMAIN dir : ~IsDir(dir[p])}

\* C21: a restore of a loaded backup with a non-empty list of only-paths, each
\* of which matches a key of the manifest, selects exactly the keys equal to a
\* given path or starting with a given path followed by '/': one task ran for
\* each of them, each of them is in the target when the restore succeeded, and
\* no other file of the target was created or changed.
C21_OnlySelectsExactly ==
    (/\ last.kind = "restore"
     /\ last.pc \in {"files", "only"}
     /\ last.only.kind = "Paths"
     /\ EachPathMatches(last.tree, last.only.paths)) =>
        LET selected == SelectedBy(last.tree, last.only.paths)
        IN  /\ last.pc = "files"
            /\ last.restored_files + last.skipped_files + Len(last.failed_files)
                   = Cardinality(selected)
            /\ last.outcome = "ok" => selected \subseteq FilesOf(target)
            /\ \A p \in FilesOf(target) \ selected :
                  p \in DOMAIN last.target_before /\ target[p] = last.target_before[p]

\* Scenario S4: the only-selector ["src"] restored src/a.txt and src/b.txt
\* into an empty target and did not create doc/c.md.
C21_Witness ==
    /\ last.kind = "restore"
    /\ last.outcome = "ok"
    /\ last.only = OnlyPaths(<< <<"src">> >>)
    /\ last.target_before = EmptyMap
    /\ DOMAIN last.tree = {SrcA, SrcB, DocC}
    /\ FilesOf(target) = {SrcA, SrcB}
    /\ last.restored_files = 2

EmptyDirs(dir) == {d \in DOMAIN dir : IsDir(dir[d]) /\ ~HasEntries(dir, d)}

\* C22: a restore with prune-local that succeeded leaves no empty directory in
\* the target, a directory that was empty before the restore and held no
\* deleted file included; the files of the target are those of the backup, and
\* deleted_local counts the files that were in the target and not in the backup
\* (scenario S5: c deleted, d/ removed, restored = 2, skipped = 0,
\* deleted_local = 1).
C22_PruneLocalRemovesEmptyDirs ==
    (/\ last.kind = "restore"
     /\ last.outcome = "ok"
     /\ last.prune_local) =>
        /\ EmptyDirs(target) = {}
        /\ FilesOf(target) = DOMAIN last.tree
        /\ last.deleted_local = Cardinality(FilesOf(last.target_before) \ DOMAIN last.tree)
        /\ (last.target_before = TargetS5 /\ DOMAIN last.tree = {FileA, FileB}) =>
              /\ last.restored_files = 2
              /\ last.skipped_files = 0
              /\ last.deleted_local = 1

\* What the code does in scenario S5: c is deleted and counted, both files are
\* restored, and the directory d/ is still there.
C22_EmptyDirLeft ==
    /\ last.kind = "restore"
    /\ last.outcome = "ok"
    /\ last.prune_local
    /\ last.target_before = TargetS5
    /\ DOMAIN target = {FileA, FileB, DirD}
    /\ last.restored_files = 2
    /\ last.skipped_files = 0
    /\ last.deleted_local = 1

\* The restore that ended was of a backup whose manifest is GIB1-framed and was
\* written with a password other than the one the restore was given.
RestoredWithWrongPassword ==
    /\ last.kind = "restore"
    /\ last.pc # "params"
    /\ last.password # NoPassword
    /\ BackupFilePath(KEY, last.hash) \in DOMAIN last.store_before
    /\ LET blob == last.store_before[BackupFilePath(KEY, last.hash)]
       IN  Len(blob) = 3 /\ is_encrypted(blob) /\ blob[2] # last.password

TreeSame3 == [p \in {FileA} |-> [content |-> <<1, 1, 1>>, mode |-> S_IFREG + Mode644]]
TreeSame4 == [p \in {FileA} |-> [content |-> <<1, 1, 1, 1>>, mode |-> S_IFREG + Mode644]]

InitDedup ==
    /\ store = EmptyMap
    /\ pw \in PasswordOpts
    /\ clock = 1
    /\ source \in {TreeSame3, TreeSame4}
    /\ target = EmptyMap
    /\ run = Idle
    /\ tasks = EmptyMap
    /\ watcher = NoWatcher
    /\ hits = 0
    /\ nother = 0
    /\ last = NoCommand
    /\ prev = NoCommand
    /\ clean = TRUE

NextDedup ==
    \/ \E cs \in ChunkSizes, m \in Messages : StartBackup(cs, m, FALSE)
    \/ BackupSteps

SpecDedup == InitDedup /\ [][NextDedup]_vars

\* The number of chunks of the one file of the source, when the file is a
\* whole number of full-size chunks.
FullChunks(chunk_size) == Len(source[FileA].content) \div chunk_size
\* The first backup, into an empty repository, of a file of full-size chunks
\* that are all equal, ended without error.
FirstBackupOfEqualChunks ==
    /\ last.kind = "backup"
    /\ last.outcome = "ok"
    /\ last.store_before = EmptyMap
    /\ DOMAIN source = {FileA}
    /\ Len(source[FileA].content) % last.chunk_size = 0
    /\ FullChunks(last.chunk_size) >= 2
StoredChunkPaths(st) == {p \in DOMAIN st : Len(p) = 4 /\ p[2] = <<"chunks">>}

\* C24 as stated: written_bytes is the length of all the chunks of the file.
C24_WrittenBytesCountsEveryChunk ==
    FirstBackupOfEqualChunks =>
        /\ last.written_bytes = FullChunks(last.chunk_size) * last.chunk_size
        /\ last.deduplicated_bytes = (FullChunks(last.chunk_size) - 1) * last.chunk_size

\* C24: the first backup, into an empty repository, of one file of n equal
\* full-size chunks: written_bytes is the length of one chunk (the one
\* uploaded), deduplicated_bytes the length of the other n - 1, exactly one
\* chunk blob is stored, and the persisted chunk index has exactly one entry,
\* with refcount n.
C24_EqualChunksStoredOnce ==
    FirstBackupOfEqualChunks =>
        LET n == FullChunks(last.chunk_size)
            chunk_hash == Sha256(SubSeq(source[FileA].content, 1, last.chunk_size))
        IN  /\ last.written_bytes = last.chunk_size
            /\ last.deduplicated_bytes = (n - 1) * last.chunk_size
            /\ StoredChunkPaths(store) = {ChunkPath(KEY, chunk_hash)}
            /\ DOMAIN StoredIndex(store) = {chunk_hash}
            /\ StoredIndex(store)[chunk_hash] = n

\* The first backup of a file of three equal chunks of one byte.
C24_Witness ==
    /\ FirstBackupOfEqualChunks
    /\ FullChunks(last.chunk_size) = 3
    /\ last.written_bytes = 1
    /\ last.deduplicated_bytes = 2

\* The occurrences of a hash in the manifests of the first n backups listed in
\* a store.
RECURSIVE OccurrencesInListed(_, _, _)
OccurrencesInListed(st, chunk_hash, n) ==
    IF n = 0 THEN 0
    ELSE Occurrences(chunk_hash, StoredManifest(st, StoredSummaries(st)[n].hash))
             + OccurrencesInListed(st, chunk_hash, n - 1)
TotalOccurrences(st, chunk_hash) ==
    OccurrencesInListed(st, chunk_hash, Len(StoredSummaries(st)))

\* C25: after any sequence of commands of a single writer that all completed
\* without error, the refcount of every hash in the stored chunk index is the
\* total number of its occurrences in the manifests of the listed backups, and
\* a hash is absent from the index exactly when that number is 0.
C25_RefcountIsOccurrences ==
    (clean /\ run.kind = "idle") =>
        \A h \in DOMAIN StoredIndex(store) \cup RetainedHashes(store) :
            /\ h \in DOMAIN StoredIndex(store) <=> TotalOccurrences(store, h) > 0
            /\ h \in DOMAIN StoredIndex(store) =>
                  StoredIndex(store)[h] = TotalOccurrences(store, h)

\* After two backups and the delete of one of them, all without error, a hash
\* that occurs twice in the retained manifest has refcount 2.
C25_Witness ==
    /\ clean
    /\ run.kind = "idle"
    /\ last.kind = "delete"
    /\ prev.kind = "backup"
    /\ Len(StoredSummaries(store)) = 1
    /\ \E h \in DOMAIN StoredIndex(store) :
          StoredIndex(store)[h] = 2 /\ TotalOccurrences(store, h) = 2

\* The chunk hashes that the manifest of a listed backup references and whose
\* blob is not in the store.
MissingChunks(st) ==
    {h \in UNION {IF BackupFilePath(KEY, StoredSummaries(st)[i].hash) \in DOMAIN st
                  THEN Range(TreeChunks(StoredManifest(st, StoredSummaries(st)[i].hash).tree))
                  ELSE {} : i \in DOMAIN StoredSummaries(st)} :
        ChunkPath(KEY, h) \notin DOMAIN st}

\* C26: in every reachable state of the store, after crashes and failed writes
\* at any step of a backup or a delete and after any prune, every chunk that
\* the manifest of a listed backup references has its blob in the store.
C26_ListedBackupsRestorable == MissingChunks(store) = {}

\* A state the code reaches: a delete wrote the chunk index and failed before
\* the summaries were written, a prune then removed the chunks of the backup,
\* which is still listed with its manifest.
C26_ListedBackupLostChunks ==
    /\ run.kind = "idle"
    /\ last.kind = "prune"
    /\ last.outcome = "ok"
    /\ prev.kind = "delete"
    /\ prev.outcome # "ok"
    /\ MissingChunks(store) # {}

\* The delete that ended failed on the summaries write or on the manifest
\* delete: the manifest of the backup is still in the store.
DeleteFailedBeforeManifestGone ==
    /\ last.kind = "delete"
    /\ last.outcome = "error"
    /\ last.error \in {"Failed to write backup index", "Failed to delete backup file"}
    /\ BackupFilePath(KEY, last.hash) \in DOMAIN store

\* C27: a delete that ended with a fatal error before the manifest was deleted
\* (the summaries write or the manifest delete failed) leaves the stored chunk
\* index as it was before the delete.
C27_FailedDeleteKeepsIndex ==
    DeleteFailedBeforeManifestGone =>
        StoredIndex(store) = StoredIndex(last.store_before)

\* A state the code reaches: the manifest delete failed, the manifest is still
\* there, and the stored index has already lost the references of the backup.
C27_IndexAlreadyReleased ==
    /\ DeleteFailedBeforeManifestGone
    /\ last.error = "Failed to delete backup file"
    /\ \E h \in DOMAIN StoredIndex(last.store_before) :
          h \notin DOMAIN StoredIndex(store)

\* ------------------------------------------------------ failing index reads
\* Backups that nothing else disturbs, in which the read of the chunk index
\* may fail while the blob exists.
NextReadFault ==
    \/ \E cs \in ChunkSizes, m \in Messages : StartBackup(cs, m, FALSE)
    \/ \E cs \in ChunkSizes, m \in Messages : StartBackupIndexUnreadable(cs, m)
    \/ BackupSteps

SpecReadFault == Init /\ [][NextReadFault]_vars

\* C28: a backup that ended without error has not removed or lowered an entry
\* of the chunk index stored before it, also when the read of the index blob
\* failed with an I/O error: every hash stored with refcount r before is stored
\* with a refcount of at least r after.
C28_BackupKeepsIndexEntries ==
    (last.kind = "backup" /\ last.outcome = "ok") =>
        \A h \in DOMAIN StoredIndex(last.store_before) :
            /\ h \in DOMAIN StoredIndex(store)
            /\ StoredIndex(store)[h] >= StoredIndex(last.store_before)[h]

\* A state the code reaches: the second backup ended without error and the
\* stored index counts its references alone, those of the first backup, which
\* is still listed, are gone.
C28_IndexStartedOver ==
    /\ last.kind = "backup"
    /\ last.outcome = "ok"
    /\ Len(StoredSummaries(store)) = 2
    /\ \E h \in DOMAIN StoredIndex(last.store_before) :
          /\ h \in DOMAIN StoredIndex(store)
          /\ StoredIndex(store)[h] < TotalOccurrences(store, h)

\* C29: restore counts a file as restored only if every chunk of its manifest
\* entry was fetched and written in order: a task that met a chunk whose blob
\* is missing or whose read failed ends as failed and the restore ends with the
\* failed files reported; every file counted as restored has the size and the
\* hash of its manifest entry.
C29_RestoredOnlyIfEveryChunkRead ==
    (last.kind = "restore" /\ last.pc = "files") =>
        /\ \A f \in last.unread :
              /\ last.outcomes[f] = "failed"
              /\ last.outcome = "error"
              /\ last.failed_files # <<>>
        /\ \A f \in DOMAIN last.outcomes :
              last.outcomes[f] = "restored" =>
                  /\ IsFileAt(target, f)
                  /\ Len(target[f].content) = last.tree[f].size
                  /\ calculate_file_hash(target[f]) = last.tree[f].hash
        /\ last.restored_files =
               Cardinality({f \in DOMAIN last.outcomes : last.outcomes[f] = "restored"})
        /\ Len(last.failed_files) =
               Cardinality({f \in DOMAIN last.outcomes : last.outcomes[f] = "failed"})

\* A restore in which the read of the second chunk of a file failed: the file
\* is left shorter than its manifest entry and the restore reported it failed.
C29_Witness ==
    /\ last.kind = "restore"
    /\ last.outcome = "error"
    /\ \E f \in last.unread :
          /\ last.outcomes[f] = "failed"
          /\ IsFileAt(target, f)
          /\ target[f].content # <<>>
          /\ Len(target[f].content) < last.tree[f].size

\* ------------------------------------------------------ failing file reads
\* Backups that nothing else disturbs, in which a read of a source file may
\* fail.
NextSourceFault ==
    \/ \E cs \in ChunkSizes, m \in Messages : StartBackup(cs, m, FALSE)
    \/ BackupSteps
    \/ \E f \in DOMAIN tasks : ReadChunkFails(f)

SpecSourceFault == Init /\ [][NextSourceFault]_vars

\* The bytes that the chunks of a manifest entry give when they are fetched
\* and concatenated in order.
ChunksContent(st, object) == WriteChunks(st, pw, object.chunks, <<>>)

\* C30: a backup that ended without error has read every file to its end: for
\* every entry of its manifest the lengths of the chunks of the chunk list add
\* up to the size field and the chunks concatenated are the file; a failed read
\* of a source file is not taken for the end of the file.
C30_ChunksCoverEveryFile ==
    (last.kind = "backup" /\ last.outcome = "ok") =>
        LET tree == StoredManifest(store, last.hash).tree
        IN  \A f \in DOMAIN tree :
                /\ ChunksContent(store, tree[f]).ok
                /\ Len(ChunksContent(store, tree[f]).content) = tree[f].size
                /\ ChunksContent(store, tree[f]).content = source[f].content

\* A state the code reaches: a backup ended without error and its manifest
\* holds a file of size 2 whose chunk list gives one byte.
C30_TruncatedFileBackedUp ==
    /\ last.kind = "backup"
    /\ last.outcome = "ok"
    /\ last.failed_files = <<>>
    /\ \E f \in DOMAIN StoredManifest(store, last.hash).tree :
          LET object == StoredManifest(store, last.hash).tree[f]
          IN  /\ object.size = 2
              /\ Len(ChunksContent(store, object).content) = 1

\* The manifests in the store.
PersistedManifests(st) == {h \in BackupHashes : BackupFilePath(KEY, h) \in DOMAIN st}

\* C31: under every interleaving of the per-file tasks and every pattern of
\* failed and retried chunk writes, every chunk hash of a manifest that a
\* backup has persisted has its blob in the store: a task's dedup hit on a
\* chunk whose upload by another task then fails never reaches a persisted
\* manifest, and a backup that ended without error left every chunk of its
\* manifest in the store.
C31_ManifestChunksStored ==
    /\ \A h \in PersistedManifests(store) :
          \A c \in Range(TreeChunks(StoredManifest(store, h).tree)) :
              ChunkPath(KEY, c) \in DOMAIN store
    /\ (last.kind = "backup" /\ last.outcome = "ok") =>
          last.hash \in PersistedManifests(store)

\* The manifest of a backup was persisted after one task counted a dedup hit
\* and a task uploaded a chunk at a retry.
C31_Witness ==
    /\ run.kind = "backup"
    /\ run.manifest_result = "ok"
    /\ run.deduplicated_bytes > 0
    /\ \E f \in DOMAIN tasks : tasks[f].tries = <<"err", "ok">>
    /\ \E f \in DOMAIN tasks : tasks[f].tries = <<>> /\ tasks[f].file_chunks # <<>>

\* The index the running backup loaded.
LoadedIndex == StoredIndex(run.store_before)

\* One turn of a task's read loop sends the chunk to the upload exactly when
\* its hash had no entry in the shared index, and leaves the entry at 1; any
\* other turn that takes a chunk counts it as a dedup hit and writes nothing.
C32_Step ==
    (run.kind = "backup" /\ run'.kind = "backup") =>
        \A f \in DOMAIN tasks :
            LET chunk_hash == Sha256(CurrentChunk(f))
            IN  /\ (tasks[f].pc = "read" /\ tasks'[f].pc = "write") =>
                      /\ chunk_hash \notin DOMAIN run.chunk_indexes
                      /\ run'.chunk_indexes[chunk_hash] = 1
                /\ (tasks[f].pc = "read" /\ tasks'[f].pc = "read"
                        /\ tasks'[f].off > tasks[f].off) =>
                      /\ chunk_hash \in DOMAIN run.chunk_indexes
                      /\ run'.chunk_indexes[chunk_hash] = run.chunk_indexes[chunk_hash] + 1
                      /\ run'.deduplicated_bytes
                             = run.deduplicated_bytes + Len(CurrentChunk(f))
                      /\ store' = store

\* While a backup runs, at most one task is uploading or has just uploaded a
\* given chunk hash, and no entry of the shared index is below the loaded one.
C32_OneUploader ==
    run.kind = "backup" =>
        /\ \A f, g \in DOMAIN tasks :
              (/\ f # g
               /\ tasks[f].pc \in {"write", "record"}
               /\ tasks[g].pc \in {"write", "record"}) =>
                  Sha256(CurrentChunk(f)) # Sha256(CurrentChunk(g))
        /\ \A h \in DOMAIN LoadedIndex :
              h \in DOMAIN run.chunk_indexes /\ run.chunk_indexes[h] >= LoadedIndex[h]

\* A backup that ended without error uploaded each hash that the loaded index
\* lacked once: written_bytes is the length of the distinct new chunks, and
\* every other occurrence is in deduplicated_bytes.
C32_EachNewHashUploadedOnce ==
    (last.kind = "backup" /\ last.outcome = "ok") =>
        LET tree == StoredManifest(store, last.hash).tree
            new_hashes == Range(TreeChunks(tree)) \ DOMAIN StoredIndex(last.store_before)
        IN  /\ last.written_bytes
                   = Len(WriteChunks(store, pw, SeqOfSet(new_hashes), <<>>).content)
            /\ last.written_bytes + last.deduplicated_bytes = TotalSize(source)

\* C32: within one backup, for every chunk hash that the loaded index lacks,
\* exactly one occurrence observes the incremented refcount 1 and uploads the
\* chunk; every other occurrence, in the same task or in a concurrent one, is
\* counted as a dedup hit and uploads nothing.
C32_OneUploadPerNewHash ==
    /\ [][C32_Step]_vars
    /\ []C32_OneUploader
    /\ []C32_EachNewHashUploadedOnce

\* A task counted a dedup hit on a chunk that another task is still uploading.
C32_Witness ==
    /\ run.kind = "backup"
    /\ run.store_before = EmptyMap
    /\ run.deduplicated_bytes > 0
    /\ \E f, g \in DOMAIN tasks :
          /\ f # g
          /\ tasks[f].pc = "write"
          /\ \E i \in DOMAIN tasks[g].file_chunks :
                tasks[g].file_chunks[i] = Sha256(CurrentChunk(f))

\* C33: the pending journal is persisted before any chunk of the backup is
\* uploaded: while the per-file tasks of a backup run, whenever a chunk blob
\* written by that backup is in the store its journal is in the store too, so a
\* backup killed after uploading chunks leaves a journal behind.
C33_JournalBeforeChunks ==
    (run.kind = "backup" /\ run.pc = "join" /\ run.written_paths # {}) =>
        PendingBackupPath(KEY, run.new_backup.hash) \in DOMAIN store

\* A state the code reaches: a backup was killed while its tasks ran, a chunk
\* it uploaded is in the store and no journal of it is.
C33_KilledWithoutJournal ==
    /\ run.kind = "idle"
    /\ last.kind = "backup"
    /\ last.outcome = "crashed"
    /\ last.pc = "join"
    /\ last.store_before = EmptyMap
    /\ \E p \in DOMAIN store : IsChunkPath(p)
    /\ PendingBackupPath(KEY, last.hash) \notin DOMAIN store

\* The processed_chunks of a serialised journal.
ProcessedIn(bytes) == from_slice(bytes).val.processed_chunks
\* Every hash of the list is the hash of a chunk this backup has uploaded, and
\* none is there twice.
UploadedOnce(processed_chunks) ==
    /\ \A i \in DOMAIN processed_chunks :
          ChunkPath(KEY, processed_chunks[i]) \in run.written_paths
    /\ \A i, j \in DOMAIN processed_chunks :
          processed_chunks[i] = processed_chunks[j] => i = j

\* While a backup runs, the journal in memory, the snapshot the journal thread
\* holds and the journal in the store list uploaded chunks only; the two
\* copies are the in-memory list cut at an earlier moment.
C34_JournalInv ==
    run.kind = "backup" =>
        LET in_memory == run.pending_backup.processed_chunks
            path == PendingBackupPath(KEY, run.new_backup.hash)
        IN  /\ UploadedOnce(in_memory)
            /\ watcher.bytes # EmptyBytes =>
                  /\ from_slice(watcher.bytes).ok
                  /\ IsPrefix(ProcessedIn(watcher.bytes), in_memory)
            /\ path \in DOMAIN store =>
                  /\ from_slice(store[path]).ok
                  /\ IsPrefix(ProcessedIn(store[path]), in_memory)

\* A step appends to processed_chunks only the hash of the chunk whose upload
\* the task has just seen succeed; a dedup hit and a failed upload append
\* nothing.
C34_Step ==
    (run.kind = "backup" /\ run'.kind = "backup") =>
        LET before == run.pending_backup.processed_chunks
            after == run'.pending_backup.processed_chunks
        IN  \/ after = before
            \/ \E f \in DOMAIN tasks :
                  /\ tasks[f].pc = "record"
                  /\ tasks[f].tries # <<>>
                  /\ tasks[f].tries[Len(tasks[f].tries)] = "ok"
                  /\ after = Append(before, Sha256(CurrentChunk(f)))

\* C34: at every moment of a backup every hash in the journal's
\* processed_chunks, in memory and in every persisted snapshot, is the hash of
\* a chunk whose write to the store has succeeded in this backup; dedup hits
\* and failed uploads are never appended, and each snapshot is a point-in-time
\* copy of the list.
C34_JournalListsUploadedChunks ==
    /\ []C34_JournalInv
    /\ [][C34_Step]_vars

\* The journal in the store lists one uploaded chunk while the list in memory
\* has two and a task has counted a dedup hit.
C34_Witness ==
    /\ run.kind = "backup"
    /\ PendingBackupPath(KEY, run.new_backup.hash) \in DOMAIN store
    /\ Len(ProcessedIn(store[PendingBackupPath(KEY, run.new_backup.hash)])) = 1
    /\ Len(run.pending_backup.processed_chunks) = 2
    /\ run.deduplicated_bytes > 0

\* The backup with a journal thread that is scheduled fairly: a tick or a
\* write of the thread that stays possible is taken.
SpecJournaler ==
    Init /\ [][NextBackup]_vars /\ WF_vars(WatcherTick) /\ WF_vars(WatcherWrite)

\* With the stop flag set the journal thread can only finish the write it had
\* begun before the flag was set and then, on its next tick, leave the loop;
\* the tick that sees the flag writes nothing and serialises nothing.
C35_StepUnderStop ==
    (run.kind = "backup" /\ run.stop /\ run'.kind = "backup" /\ watcher' # watcher) =>
        \/ /\ watcher.pc = "write"
           /\ watcher.ticks = watcher'.ticks
           /\ watcher'.pc = "tick"
        \/ /\ watcher.pc = "tick"
           /\ watcher' = [watcher EXCEPT !.pc = "exit"]
           /\ store' = store

\* C35: once the main task has set the stop flag the journal thread performs
\* at most one further journal write and then terminates: the tick on which
\* it sees the flag writes nothing, and under fair scheduling the thread
\* leaves its loop (or the process has ended before).
C35_JournalerStops ==
    /\ [][C35_StepUnderStop]_vars
    /\ (run.kind = "backup" /\ run.stop) ~> (watcher.pc = "exit" \/ run.kind # "backup")

\* The thread has left its loop in a backup whose stop flag is set, after a
\* journal write.
C35_Witness ==
    /\ run.kind = "backup"
    /\ run.stop
    /\ watcher.pc = "exit"
    /\ watcher.ticks = 1
    /\ PendingBackupPath(KEY, run.new_backup.hash) \in DOMAIN store

\* The fan-out of per-file and per-chunk tasks.  Every command builds a
\* semaphore of MAX_CONCURRENT_FILES or MAX_CONCURRENT_CHUNKS permits and
\* spawns one task an item; the body of a task begins with
\* semaphore.acquire().await and keeps the permit in a local that is dropped
\* when the body returns, with Ok or with Err, or unwinds.  The tasks of one
\* fan-out run the same code, so the state counts them by their position:
\* waiting for a permit, holding it before the first I/O, working, ended.
MAX_CONCURRENT_FILES == 100
MAX_CONCURRENT_CHUNKS == 100
MaxSpawned == 102
FanOutCommands == {"backup", "restore", "delete", "prune"}
SemaphoreNew(command) ==
    IF command \in {"backup", "restore"} THEN MAX_CONCURRENT_FILES
    ELSE MAX_CONCURRENT_CHUNKS

InitPermits ==
    /\ store = EmptyMap
    /\ pw \in PasswordOpts
    /\ clock = 1
    /\ source \in {TreeTwo}
    /\ target = EmptyMap
    /\ \E command \in FanOutCommands :
          run = [kind |-> "fanout", command |-> command,
                 semaphore |-> SemaphoreNew(command), spawned |-> MaxSpawned,
                 failed |-> FALSE]
    /\ tasks = [waiting |-> MaxSpawned, holding |-> 0, working |-> 0, ended |-> 0]
    /\ watcher = NoWatcher
    /\ hits = 0
    /\ nother = 0
    /\ last = NoCommand
    /\ prev = NoCommand
    /\ clean = TRUE

\* A semaphore that hands a permit out without counting.
AcquireUncounted ==
    /\ run.kind = "fanout"
    /\ tasks.waiting > 0
    /\ tasks' = [tasks EXCEPT !.waiting = @ - 1, !.holding = @ + 1]
    /\ UNCHANGED <<store, pw, clock, source, target, run, watcher, hits, nother,
                   last, prev, clean>>

\* let _permit = semaphore.acquire().await: a waiting task takes a permit
\* when one is free.
AcquirePermit ==
    /\ run.kind = "fanout"
    /\ tasks.waiting > 0
    /\ run.semaphore > 0
    /\ run' = [run EXCEPT !.semaphore = @ - 1]
    /\ tasks' = [tasks EXCEPT !.waiting = @ - 1, !.holding = @ + 1]
    /\ UNCHANGED <<store, pw, clock, source, target, watcher, hits, nother,
                   last, prev, clean>>

\* The first file or store operation of a task: the statement after the
\* acquire.
TaskIO ==
    /\ run.kind = "fanout"
    /\ tasks.holding > 0
    /\ tasks' = [tasks EXCEPT !.holding = @ - 1, !.working = @ + 1]
    /\ UNCHANGED <<store, pw, clock, source, target, run, watcher, hits, nother,
                   last, prev, clean>>

\* The body of a task returns Ok or Err; _permit is dropped either way.
TaskEnd ==
    /\ run.kind = "fanout"
    /\ tasks.working > 0
    /\ \E ok \in BOOLEAN :
          run' = [run EXCEPT !.semaphore = @ + 1, !.failed = @ \/ ~ok]
    /\ tasks' = [tasks EXCEPT !.working = @ - 1, !.ended = @ + 1]
    /\ UNCHANGED <<store, pw, clock, source, target, watcher, hits, nother,
                   last, prev, clean>>

NextPermits ==
    \/ AcquirePermit
    \/ TaskIO
    \/ TaskEnd

\* The runtime polls every task that can run, and every I/O operation returns.
SpecPermits ==
    /\ InitPermits
    /\ [][NextPermits]_vars
    /\ WF_vars(AcquirePermit) /\ WF_vars(TaskIO) /\ WF_vars(TaskEnd)

\* The tasks that hold a permit.
PermitHolders == tasks.holding + tasks.working

\* The permits out are the permits held, and they are at most the permits of
\* the semaphore.
C36_AtMostMaxHolders ==
    /\ PermitHolders <= SemaphoreNew(run.command)
    /\ run.semaphore + PermitHolders = SemaphoreNew(run.command)
    /\ tasks.waiting + PermitHolders + tasks.ended = run.spawned

\* A task begins its I/O as a holder, and it ends with its permit back in the
\* semaphore.
C36_Step ==
    /\ tasks'.working > tasks.working =>
          (tasks'.holding = tasks.holding - 1 /\ tasks'.waiting = tasks.waiting)
    /\ tasks'.ended > tasks.ended => run'.semaphore = run.semaphore + 1

\* C36: at most MAX_CONCURRENT (100) tasks of a fan-out hold a permit; a task
\* does no I/O before it has its permit; the permit is released when the task
\* ends, with success or failure, so every spawned task gets a permit in the
\* end.
C36_PermitsBoundTheFanOut ==
    /\ []C36_AtMostMaxHolders
    /\ [][C36_Step]_vars
    /\ <>[](tasks.waiting = 0)

\* Every permit is out, tasks wait, and a task that failed has ended.
C36_Witness ==
    /\ run.kind = "fanout"
    /\ PermitHolders = 100
    /\ run.semaphore = 0
    /\ tasks.waiting = 1
    /\ tasks.ended = 1
    /\ run.failed

\* create_new_commit of core/indexes.rs: the record of a new snapshot and the
\* list of summaries with the new one first.  The function reads
\* SystemTime::now() once inside the format! that is hashed and once more for
\* the timestamp field; hash_secs and timestamp_secs are the two readings.
MaxCommits == 3
CommitMessages == {"m", "n"}
CommitIndexPath(key) == <<key, <<"indexes">>, <<"commits">>>>
to_vec(v) == <<"msgpack", v>>
list_commit_summaries(st, key, password) ==
    LET r == read_file(st, CommitIndexPath(key))
        commit_summaries_bytes == IF r.ok THEN r.val ELSE EmptyBytes
        enc == is_encrypted(commit_summaries_bytes)
        dec == IF password # NoPassword /\ enc
               THEN decrypt_bytes(commit_summaries_bytes, password)
               ELSE Ok(commit_summaries_bytes)
        unz == IF dec.ok THEN decompress_bytes(dec.val) ELSE dec
        de == IF unz.ok THEN from_slice(unz.val) ELSE unz
    IN  IF commit_summaries_bytes = EmptyBytes THEN Ok(<<>>)
        ELSE IF password = NoPassword /\ enc
            THEN Err("Backup summaries are encrypted but no password provided")
        ELSE de

Commit(message, author, hash_secs, timestamp_secs) ==
    [message |-> message, author |-> author, timestamp |-> timestamp_secs,
     tree |-> EmptyMap, hash |-> BackupHash(message, author, hash_secs)]
CommitSummary(commit) == [message |-> commit.message, hash |-> commit.hash]

InitCommit ==
    /\ store = EmptyMap
    /\ pw \in PasswordOpts
    /\ clock = 1
    /\ source \in {TreeTwo}
    /\ target = EmptyMap
    /\ run = Idle
    /\ tasks = EmptyMap
    /\ watcher = NoWatcher
    /\ hits = 0
    /\ nother = 0
    /\ last = NoCommand
    /\ prev = NoCommand
    /\ clean = TRUE

\* create_new_commit; elapsed is what the clock advances between its two
\* readings, written tells whether fs.write_file succeeds.
create_new_commit(message, elapsed, written) ==
    /\ run.kind = "idle"
    /\ clock + elapsed <= MaxCommits
    /\ list_commit_summaries(store, KEY, pw).ok
          => Len(list_commit_summaries(store, KEY, pw).val) < MaxCommits
    /\ clock' = clock + elapsed
    /\ LET commit == Commit(message, AUTHOR, clock, clock + elapsed)
           commit_sumaries == list_commit_summaries(store, KEY, pw)
           final_commit_sumaries_bytes ==
               maybe_encrypt(
                   compress_bytes(to_vec(<<CommitSummary(commit)>> \o commit_sumaries.val),
                                  DEFAULT_COMPRESS),
                   pw)
       IN  IF ~commit_sumaries.ok
           THEN /\ last' = [kind |-> "commit", outcome |-> "error",
                            error |-> commit_sumaries.err]
                /\ store' = store
           ELSE IF ~written
           THEN /\ last' = [kind |-> "commit", outcome |-> "error",
                            error |-> "Failed to write backup index"]
                /\ store' = store
           ELSE /\ last' = [kind |-> "commit", outcome |-> "ok", commit |-> commit]
                /\ store' = write_file(store, CommitIndexPath(KEY),
                                       final_commit_sumaries_bytes)
    /\ prev' = last
    /\ UNCHANGED <<pw, source, target, run, tasks, watcher, hits, nother, clean>>

\* A second passes between two commands.
ClockAdvances ==
    /\ run.kind = "idle"
    /\ clock < MaxCommits
    /\ clock' = clock + 1
    /\ UNCHANGED <<store, pw, source, target, run, tasks, watcher, hits, nother,
                   last, prev, clean>>

NextCommit ==
    \/ \E message \in CommitMessages, elapsed \in {0, 1}, written \in BOOLEAN :
          create_new_commit(message, elapsed, written)
    \/ ClockAdvances

SpecCommit == InitCommit /\ [][NextCommit]_vars

\* C37: the hash of every created snapshot record is SHA-256 of message ':'
\* author ':' timestamp, with the timestamp the record stores, also when the
\* clock advances while the record is built.
C37_HashFromTimestamp ==
    (last.kind = "commit" /\ last.outcome = "ok") =>
        last.commit.hash =
            BackupHash(last.commit.message, last.commit.author, last.commit.timestamp)

\* A record whose timestamp is one second after the second that was hashed,
\* listed in the store under its hash.
C37_HashOfEarlierSecond ==
    /\ last.kind = "commit"
    /\ last.outcome = "ok"
    /\ last.commit.hash =
          BackupHash(last.commit.message, last.commit.author, last.commit.timestamp - 1)
    /\ list_commit_summaries(store, KEY, pw).ok
    /\ list_commit_summaries(store, KEY, pw).val[1].hash = last.commit.hash

\* The chunker on files of every length from 0 to 4 and chunk sizes 1 to 3:
\* one file of a chosen length next to an empty file.
ChunkerContents == {<<1>>, <<1, 2>>, <<1, 2, 3>>, <<1, 2, 1, 2>>}
ChunkerTrees ==
    {[p \in {FileA, FileB} |->
         IF p = FileA THEN [content |-> content, mode |-> S_IFREG + Mode644]
                      ELSE [content |-> <<>>, mode |-> S_IFREG + Mode644]] :
     content \in ChunkerContents}
ChunkerSizes == {1, 2, 3}

InitChunker ==
    /\ store = EmptyMap
    /\ pw \in PasswordOpts
    /\ clock = 1
    /\ source \in ChunkerTrees
    /\ target = EmptyMap
    /\ run = Idle
    /\ tasks = EmptyMap
    /\ watcher = NoWatcher
    /\ hits = 0
    /\ nother = 0
    /\ last = NoCommand
    /\ prev = NoCommand
    /\ clean = TRUE

NextChunker ==
    \/ \E cs \in ChunkerSizes, m \in Messages : StartBackup(cs, m, FALSE)
    \/ BackupSteps

SpecChunker == InitChunker /\ [][NextChunker]_vars

\* ceil(L / c)
CeilDiv(L, c) == (L + c - 1) \div c
\* The i-th cut of a file at the chunk size.
Cut(content, c, i) == SubSeq(content, (i - 1) * c + 1, Min(i * c, Len(content)))

\* The entry of a manifest for a file lists the hashes of the cuts of the file
\* in file order, with the size and the hash of the file.
ChunkedAt(object, content, c) ==
    /\ Len(object.chunks) = CeilDiv(Len(content), c)
    /\ \A i \in DOMAIN object.chunks :
          /\ object.chunks[i] = Sha256(Cut(content, c, i))
          /\ i < Len(object.chunks) => Len(Cut(content, c, i)) = c
          /\ Len(Cut(content, c, i)) \in 1..c
    /\ Len(content) % c = 0 => Len(object.chunks) * c = Len(content)
    /\ c = 1 => Len(object.chunks) = Len(content)
    /\ Len(content) = 0 => object.chunks = <<>>
    /\ object.size = Len(content)
    /\ object.hash = Sha256(content)

\* C38: for a file of length L and a chunk size c >= 1 the chunker emits
\* ceil(L/c) chunks in file order, each of length c except possibly the last;
\* L = N*c gives N chunks and no tail, L = 0 gives an empty chunk list with
\* size 0 and the hash of the empty input, c = 1 gives one chunk a byte.
C38_ChunkerCutsAtChunkSize ==
    (last.kind = "backup" /\ last.outcome = "ok") =>
        LET tree == StoredManifest(store, last.hash).tree
        IN  /\ DOMAIN tree = DOMAIN source
            /\ \A f \in DOMAIN tree : ChunkedAt(tree[f], source[f].content, last.chunk_size)

\* A backup at chunk size 2 of a file of 4 bytes and of an empty file: two
\* chunks and no tail, and an empty list with the hash of the empty input.
C38_Witness ==
    /\ last.kind = "backup"
    /\ last.outcome = "ok"
    /\ last.chunk_size = 2
    /\ Len(source[FileA].content) = 4
    /\ Len(StoredManifest(store, last.hash).tree[FileA].chunks) = 2
    /\ StoredManifest(store, last.hash).tree[FileB].chunks = <<>>
    /\ StoredManifest(store, last.hash).tree[FileB].size = 0
    /\ StoredManifest(store, last.hash).tree[FileB].hash = Sha256(<<>>)

\* The step that ends a restore with prune-local without error removes from
\* the target the files that are no key of the manifest and no other file, and
\* counts them.
C39_CleanupStep ==
    (/\ run.kind = "restore"
     /\ run.prune_local
     /\ last'.kind = "restore"
     /\ last'.outcome = "ok") =>
        /\ run.only.kind # "Paths"
        /\ FilesOf(target) \ FilesOf(target') = FilesOf(target) \ DOMAIN run.tree
        /\ FilesOf(target') \subseteq FilesOf(target)
        /\ \A p \in FilesOf(target) \cap DOMAIN run.tree :
              p \in DOMAIN target' /\ target'[p] = target[p]
        /\ last'.deleted_local = Cardinality(FilesOf(target) \ DOMAIN run.tree)

\* A restore given prune-local and an only-selector has ended at its
\* parameters with the target as it was; no restore runs with both.
C39_Rejected ==
    /\ (last.kind = "restore" /\ last.prune_local /\ last.only.kind = "Paths") =>
          /\ last.outcome = "error"
          /\ last.error = "--only cannot be used together with --prune-local"
          /\ last.pc = "params"
          /\ target = last.target_before
          /\ last.restored_files = 0
          /\ last.skipped_files = 0
          /\ last.deleted_local = 0
    /\ run.kind = "restore" => ~(run.prune_local /\ run.only.kind = "Paths")

\* C39: with prune-local and no only-selector the cleanup after a restore
\* deletes exactly the regular files under the target whose relative path is
\* no key of the backup tree, and never a file whose relative path is a key;
\* prune-local together with an only-selector is rejected before any file is
\* restored or deleted.
C39_PruneLocalDeletesExactlyExtras ==
    /\ [][C39_CleanupStep]_vars
    /\ []C39_Rejected

\* A restore with prune-local has ended without error on a target that held a
\* file of the backup and a file that is no key of it: the first is there, the
\* second is gone.
C39_Witness ==
    /\ last.kind = "restore"
    /\ last.outcome = "ok"
    /\ last.prune_local
    /\ last.deleted_local >= 1
    /\ \E p \in FilesOf(last.target_before) : p \in DOMAIN last.tree /\ p \in FilesOf(target)
    /\ \E p \in FilesOf(last.target_before) : p \notin DOMAIN last.tree /\ p \notin DOMAIN target

\* encrypt: the blobs of the repository that are not framed are rewritten
\* framed.  The command names the summaries key/indexes/commits and the
\* manifests key/commits/<hash>.
CommitFilePath(key, commit_hash) == <<key, <<"commits">>, commit_hash>>
files_to_encrypt(key, chunk_indexes, commit_sumaries) ==
    {ChunkIndexPath(key), CommitIndexPath(key)}
        \cup {ChunkPath(key, chunk_hash) : chunk_hash \in DOMAIN chunk_indexes}
        \cup {CommitFilePath(key, commit_sumaries[i].hash) : i \in DOMAIN commit_sumaries}

\* One task of encrypt: the blob is read and, unless it was framed, written
\* back through write_file_maybe_encrypt.
encrypt_file(st, file_path, password) ==
    LET read_result == read_file_maybe_decrypt(st, file_path, password,
                           "File is encrypted but no password provided")
    IN  IF ~read_result.ok THEN [ok |-> FALSE, st |-> st]
        ELSE IF read_result.val.was_encrypted THEN [ok |-> TRUE, st |-> st]
        ELSE [ok |-> TRUE,
              st |-> write_file(st, file_path, maybe_encrypt(read_result.val.bytes, password))]

\* The tasks of encrypt, each on a path of its own.
RECURSIVE encrypt_files(_, _, _)
encrypt_files(st, files, password) ==
    IF files = {} THEN [st |-> st, failed_files |-> {}]
    ELSE LET file_path == CHOOSE p \in files : TRUE
             one == encrypt_file(st, file_path, password)
             rest == encrypt_files(one.st, files \ {file_path}, password)
         IN  [st |-> rest.st,
              failed_files |-> rest.failed_files \cup (IF one.ok THEN {} ELSE {file_path})]

EncryptSummaryOf(password, outcome, error) ==
    [kind |-> "encrypt", outcome |-> outcome, error |-> error, password |-> password,
     store_before |-> store]

\* encrypt(): the password is required, the chunk index and the summaries are
\* loaded, one task a blob runs, the errors of the tasks are reported together.
Encrypt(password) ==
    /\ run.kind = "idle"
    /\ nother < MaxOther
    /\ nother' = nother + 1
    /\ Begin
    /\ LET chunk_indexes == load_chunk_indexes(store, KEY, password)
           commit_sumaries == list_commit_summaries(store, KEY, password)
           done == encrypt_files(store,
                                 files_to_encrypt(KEY, chunk_indexes.val.indexes,
                                                  commit_sumaries.val),
                                 password)
       IN  IF password = NoPassword
           THEN /\ Exit(EncryptSummaryOf(password, "error", "Password is required"))
                /\ store' = store
           ELSE IF ~chunk_indexes.ok
           THEN /\ Exit(EncryptSummaryOf(password, "error", "Failed to load chunk indexes"))
                /\ store' = store
           ELSE IF ~commit_sumaries.ok
           THEN /\ Exit(EncryptSummaryOf(password, "error", "Failed to load commit summaries"))
                /\ store' = store
           ELSE /\ store' = done.st
                /\ IF done.failed_files # {}
                   THEN Exit(EncryptSummaryOf(password, "error", "Failed to process files"))
                   ELSE Exit(EncryptSummaryOf(password, "ok", ""))
    /\ UNCHANGED <<pw, clock, source, target, hits>>

NextEncrypt ==
    \/ \E cs \in ChunkSizes, m \in Messages : StartBackup(cs, m, FALSE)
    \/ BackupSteps
    \/ \E password \in PasswordOpts \cup {OtherPassword} : Encrypt(password)

SpecEncrypt == Init /\ [][NextEncrypt]_vars

\* The blobs of a repository: the chunk index, the summaries, the chunks that
\* are keys of the chunk index and the manifests the summaries list.
RepositoryBlobs(st, password) ==
    LET chunk_indexes == load_chunk_indexes(st, KEY, password)
        summaries == list_backup_summaries(st, KEY, password)
    IN  {ChunkIndexPath(KEY), BackupIndexPath(KEY)}
            \cup (IF chunk_indexes.ok
                  THEN {ChunkPath(KEY, h) : h \in DOMAIN chunk_indexes.val.indexes}
                  ELSE {})
            \cup (IF summaries.ok
                  THEN {BackupFilePath(KEY, summaries.val[i].hash) : i \in DOMAIN summaries.val}
                  ELSE {})

\* C40: after an encrypt that completed without error, every blob of the
\* repository that was stored in plaintext (the chunk index, the summaries,
\* the chunks that are keys of the chunk index, the manifests listed in the
\* summaries) is GIB1-framed at the same path and decodes to what it held,
\* and every blob that was framed already is as it was.
C40_EncryptFramesEveryBlob ==
    (last.kind = "encrypt" /\ last.outcome = "ok") =>
        \A path \in RepositoryBlobs(last.store_before, last.password)
                        \cap DOMAIN last.store_before :
            /\ path \in DOMAIN store
            /\ IF is_encrypted(last.store_before[path])
               THEN store[path] = last.store_before[path]
               ELSE /\ is_encrypted(store[path])
                    /\ decrypt_bytes(store[path], last.password).ok
                    /\ decrypt_bytes(store[path], last.password).val
                          = last.store_before[path]

\* A state the code reaches: encrypt has ended without error, the chunk index
\* and the chunks are framed, the summaries and a manifest they list are the
\* plaintext they were, and a framed blob stands at key/indexes/commits.
C40_SummariesLeftPlaintext ==
    /\ last.kind = "encrypt"
    /\ last.outcome = "ok"
    /\ is_encrypted(store[ChunkIndexPath(KEY)])
    /\ BackupIndexPath(KEY) \in DOMAIN store
    /\ ~is_encrypted(store[BackupIndexPath(KEY)])
    /\ \E path \in RepositoryBlobs(last.store_before, last.password) \cap DOMAIN store :
          /\ path[2] = <<"backups">>
          /\ ~is_encrypted(store[path])
    /\ \A path \in DOMAIN store : IsChunkPath(path) => is_encrypted(store[path])
    /\ CommitIndexPath(KEY) \in DOMAIN store
====
